---- MODULE Spec2Model ----
(***************************************************************************)
(* Model of the vantageflow price monitor.                                 *)
(*                                                                         *)
(*   Spec         the run coordinator, worker.check_all_prices, driven by  *)
(*                guardian.run_once: one step per external interaction     *)
(*                (store read, scrape, alert, store write).                *)
(*   SpecCascade  the fetch cascade, main.get_price / main.fetch_shopify_js*)
(*                one step per HTTP request.                               *)
(*                                                                         *)
(* Prices are held in hundredths of a dollar (9999 is $99.99), so that the *)
(* float price_raw / 100 of main.py:264 is exact.  A Python Optional is a  *)
(* sequence of length at most one: None is << >> and a value v is << v >>. *)
(***************************************************************************)
EXTENDS Integers, Sequences, FiniteSets, TLC

None == << >>
Some(v) == << v >>
IsNone(x) == x = << >>
Val(x) == x[1]

----------------------------------------------------------------------------
(* Bounds                                                                  *)

\* number of client products returned by list_client_products
NumProducts == 2
\* number of runs of check_all_prices the scheduler starts
MaxRuns == 2

----------------------------------------------------------------------------
(* The tracked entities (supabase_db.ClientProduct / CompetitorTrack)      *)

Products == 1..NumProducts

\* len(product.competitors): products with two, one and no competitor
CompCount(prod) ==
    CASE prod % 3 = 1 -> 2
      [] prod % 3 = 2 -> 1
      [] OTHER -> 0

\* a competitor is named by its product and its place in product.competitors
Comps == { <<prod, i>> : prod \in Products, i \in 1..2 } \cap
         { c \in (Products \X (1..2)) : c[2] <= CompCount(c[1]) }

\* the prices the scraper yields in a run, in hundredths: $99.99, $120.00
ScrapedPrices == {9999, 12000}
OptPrice == {None} \cup { Some(v) : v \in ScrapedPrices }

----------------------------------------------------------------------------
(* State                                                                   *)

VARIABLES
    \* the store (tables clientproduct and competitortrack)
    db_last_price,      \* competitortrack.last_price, by competitor
    db_last_checked,    \* competitortrack.last_checked, by competitor (0: null)
    db_client_price,    \* clientproduct.client_price, by product
    \* check_all_prices: position and locals
    run,                \* runs started so far
    pc,                 \* the call the run is about to make
    p,                  \* product of the outer loop (worker.py:86)
    k,                  \* index in product.competitors (worker.py:120)
    products,           \* comp.last_price as loaded by list_client_products
    client_price,       \* worker.py:89
    current_comp_price, \* worker.py:121
    now,                \* worker.py:130
    \* what the run has done (history)
    visited,            \* the entities whose get_price call returned, in order
    last_comp,          \* the competitor of the last get_price call that returned
    alert_calls,        \* alert_fn calls made for last_comp
    alert_sent,         \* arguments of the alert_fn call for last_comp
    alert_raised,       \* the alert_fn call for last_comp raised
    wrote,              \* outcome of the update_competitor call for last_comp
    crash_cause,        \* the call whose exception ended the run
    kept                \* by competitor: the stored price when its scrape last
                        \* came back None, until the next write of its row

workerVars == << db_last_price, db_last_checked, db_client_price, run,
                 pc, p, k, products, client_price, current_comp_price, now,
                 visited, last_comp, alert_calls, alert_sent, alert_raised,
                 wrote, crash_cause, kept >>

VARIABLES
    \* get_price / fetch_shopify_js: one call
    g_call,             \* the function called: "get_price" or "fetch_shopify_js"
    g_pc,               \* where the call is
    full_url,           \* main.py:305
    vendor,             \* argument of fetch_shopify_js
    handle,             \* argument of fetch_shopify_js
    hi,                 \* index of host in _vendor_candidates(vendor) (main.py:255)
    ci,                 \* index of the candidate of that host (main.py:256, 280)
    last_error,         \* main.py:254
    result,             \* what fetch_shopify_js returned, if it has
    ret,                \* what get_price returned
    requests,           \* the requests issued by the call, in order (history)
    attempt_error       \* the error of the last request that failed (history)

cascadeVars == << g_call, g_pc, full_url, vendor, handle, hi, ci, last_error,
                  result, ret, requests, attempt_error >>

VARIABLES
    \* one call of a text extractor or of get_product_snapshot (main.py:51-173,
    \* 358-374)
    ex_data,            \* the body the proxy returned for the page (main.py:358)
    ex_price,           \* snapshot["price"] before the page is read (main.py:356)
    ex_url,             \* the URL get_product_snapshot is called with
    ex_html,            \* the structured price sources in the page's HTML
    ex_fn,              \* the function that was applied
    ex_out              \* what it returned, or that it raised

extractVars == << ex_data, ex_price, ex_url, ex_html, ex_fn, ex_out >>

VARIABLES
    \* one call of supabase_db._request
    rq_pc,              \* "idle", "running", "returned" or "raised"
    attempt,            \* supabase_db.py:75: the attempts made so far
    last_exc,           \* supabase_db.py:74
    rq_result,          \* the value returned or the exception raised
    slept,              \* the arguments of time.sleep, in order (history)
    rq_log              \* what each attempt met, in order (history)

requestVars == << rq_pc, attempt, last_exc, rq_result, slept, rq_log >>

VARIABLES
    \* check_all_prices with its onboarding part (worker.py:80-118, 163-170)
    state_file,         \* the content of the state file (worker.py:21)
    temp_file,          \* the content of the file next to it, "<path>.tmp"
    caller,             \* who called check_all_prices
    initial_alert_fn,   \* the argument of that name, or "None"
    ob_pc,              \* the step the run is about to make
    listed,             \* what list_client_products returned (worker.py:81)
    ob_i,               \* index of product in it (worker.py:86)
    initial_alert_state,\* worker.py:82
    state_changed,      \* worker.py:83
    seen_product_ids,   \* worker.py:84
    \* what the run has done (history)
    file_at_start,      \* the state file when the run began
    loaded,             \* what _load_initial_alert_state returned
    reads,              \* times the state file was opened for reading
    replaces,           \* times os.replace put a new state file in place
    notified,           \* by product id: the outcome of initial_alert_fn
    saved,              \* the mapping of the last save that reached os.replace
    delivered           \* by product id: the channels of the notifications
                        \* that initial_alert_fn delivered since the product
                        \* is listed with its channel (the last two)

onboardVars == << state_file, temp_file, caller, initial_alert_fn, ob_pc, listed,
                  ob_i, initial_alert_state, state_changed, seen_product_ids,
                  file_at_start, loaded, reads, replaces, notified, saved,
                  delivered >>

VARIABLES
    \* guardian.run_forever
    lp_pc,              \* where the loop is
    interval,           \* guardian.py:26, in seconds
    sleep_for,          \* the argument of the time.sleep call in progress
    printed,            \* what the last print of guardian.py:31 said
    outcomes            \* how the last runs ended, oldest first (history)

loopVars == << lp_pc, interval, sleep_for, printed, outcomes >>

VARIABLES
    \* api.py: the request an endpoint works on
    fr_pc,              \* where the endpoint is
    fr_req,             \* the request: endpoint, secret, headers, body
    fr_resp,            \* the answer (status 0: none yet)
    fr_calls,           \* the handlers, store reads and fetches called, in order
    fr_product,         \* slack_handlers.py:23
    fr_price,           \* slack_handlers.py:30
    fr_message          \* what the handler returned

frontVars == << fr_pc, fr_req, fr_resp, fr_calls, fr_product, fr_price, fr_message >>

VARIABLES
    \* audit.collect_audit_data
    au_pc,              \* the call collect_audit_data is about to make
    au_product,         \* audit.py:583
    au_k,               \* index in product.competitors (audit.py:600)
    au_checked_at,      \* audit.py:582
    au_client_price,    \* audit.py:595
    au_price            \* audit.py:604

auditVars == << au_pc, au_product, au_k, au_checked_at, au_client_price, au_price >>

\* the Slack endpoints and the audit
chatVars == << frontVars, auditVars >>

\* the variables of the components other than check_all_prices and the cascade
restVars == << extractVars, requestVars, onboardVars, loopVars, chatVars >>

vars == << workerVars, cascadeVars, restVars >>

NoComp == <<0, 0>>
NoAlert == [comp |-> NoComp, old_p |-> None, new_p |-> None, client_p |-> None]

----------------------------------------------------------------------------
(* worker.py                                                               *)

\* mutant: the first observation (no stored price) is not a change
_prices_changed_FirstIgnored(old_price, new_price) ==
    IF IsNone(new_price) THEN FALSE
    ELSE IF IsNone(old_price) THEN FALSE
    ELSE old_price # new_price

\* worker.py:13-18
_prices_changed(old_price, new_price) ==
    IF IsNone(new_price) THEN FALSE
    ELSE IF IsNone(old_price) THEN TRUE
    ELSE old_price # new_price

\* the competitor of the current iteration of worker.py:120
comp == <<p, k>>

\* worker.py:130: datetime.utcnow().  Time is the place of the call in the
\* sequence of all such calls: later runs, products and competitors read
\* later times.
utcnow == ((run - 1) * NumProducts + (p - 1)) * 2 + k

\* worker.py:86: the next iteration of "for product in products", or the end
NextProduct(prod) ==
    IF prod < NumProducts
    THEN [pc |-> "client_get_price", p |-> prod + 1, k |-> 0]
    ELSE [pc |-> "done", p |-> prod, k |-> 0]

\* worker.py:120: the next iteration of "for comp in product.competitors"
NextComp(prod, i) ==
    IF i < CompCount(prod)
    THEN [pc |-> "comp_get_price", p |-> prod, k |-> i + 1]
    ELSE NextProduct(prod)

Goto(pos) == pc' = pos.pc /\ p' = pos.p /\ k' = pos.k

\* an exception leaves check_all_prices (nothing in worker.py:80-170 catches
\* an exception of list_client_products, get_price or an update_* call)
Crash(cause) == pc' = "crashed" /\ crash_cause' = cause /\ UNCHANGED << p, k >>

\* supabase_db.py:170-179: only the arguments that are not None are written
update_competitor(comp_id, last_price, last_checked) ==
    /\ db_last_price' = IF IsNone(last_price) THEN db_last_price
                        ELSE [db_last_price EXCEPT ![comp_id] = last_price]
    /\ db_last_checked' = IF IsNone(last_checked) THEN db_last_checked
                          ELSE [db_last_checked EXCEPT ![comp_id] = Val(last_checked)]

\* supabase_db.py:182-189
update_client_product(product_id, price) ==
    db_client_price' = IF IsNone(price) THEN db_client_price
                       ELSE [db_client_price EXCEPT ![product_id] = price]

\* the history kept of one competitor iteration is cleared when the run makes
\* its next get_price call
ClearIteration ==
    /\ last_comp' = NoComp
    /\ alert_calls' = 0
    /\ alert_sent' = NoAlert
    /\ alert_raised' = FALSE
    /\ wrote' = "none"

\* worker.py:81-84: a run starts; list_client_products reads the store
ListClientProducts ==
    /\ pc \in {"idle", "done", "crashed"}
    /\ run < MaxRuns
    /\ run' = run + 1
    /\ products' = db_last_price
    /\ Goto([pc |-> "client_get_price", p |-> 1, k |-> 0])
    /\ client_price' = None
    /\ current_comp_price' = None
    /\ now' = 0
    /\ visited' = << >>
    /\ ClearIteration
    /\ crash_cause' = "none"
    /\ UNCHANGED << db_last_price, db_last_checked, db_client_price, kept >>

\* worker.py:81 with supabase_db.py:92,105: the read raises
ListClientProductsRaises ==
    /\ pc \in {"idle", "done", "crashed"}
    /\ run < MaxRuns
    /\ run' = run + 1
    /\ Crash("list_client_products")
    /\ products' = [c \in Comps |-> None]
    /\ client_price' = None
    /\ current_comp_price' = None
    /\ now' = 0
    /\ visited' = << >>
    /\ ClearIteration
    /\ UNCHANGED << db_last_price, db_last_checked, db_client_price, kept >>

\* worker.py:90-97: the branch on the client's price
ClientGotPrice(r) ==
    /\ client_price' = r
    /\ IF IsNone(r)
       THEN Goto(NextComp(p, 0))
       ELSE pc' = "update_client_product" /\ UNCHANGED << p, k >>
    /\ visited' = Append(visited, <<"product", <<p, 0>>>>)
    /\ ClearIteration
    /\ UNCHANGED << db_last_price, db_last_checked, db_client_price, run,
                    products, current_comp_price, now, crash_cause, kept >>

\* worker.py:89: scraper.get_price(product.base_url) returns
ClientGetPrice ==
    /\ pc = "client_get_price"
    /\ \E r \in OptPrice : ClientGotPrice(r)

\* worker.py:89 with main.py:260,264: get_price raises
ClientGetPriceRaises ==
    /\ pc = "client_get_price"
    /\ Crash("get_price")
    /\ ClearIteration
    /\ UNCHANGED << db_last_price, db_last_checked, db_client_price, run,
                    products, client_price, current_comp_price, now, visited,
                    kept >>

\* worker.py:97
UpdateClientProduct ==
    /\ pc = "update_client_product"
    /\ update_client_product(p, client_price)
    /\ Goto(NextComp(p, 0))
    /\ UNCHANGED << db_last_price, db_last_checked, run, products,
                    client_price, current_comp_price, now, visited, last_comp,
                    alert_calls, alert_sent, alert_raised, wrote, crash_cause,
                    kept >>

\* worker.py:97 with supabase_db.py:92,105: the write raises
UpdateClientProductRaises ==
    /\ pc = "update_client_product"
    /\ Crash("update_client_product")
    /\ UNCHANGED << db_last_price, db_last_checked, db_client_price, run,
                    products, client_price, current_comp_price, now, visited,
                    last_comp, alert_calls, alert_sent, alert_raised, wrote, kept >>

\* mutant: the "continue" of worker.py:128 is missing; the row is written
PriceUnavailable_FallsThrough ==
    /\ now' = utcnow
    /\ pc' = "update_checked"
    /\ UNCHANGED << p, k, db_last_price, db_last_checked >>

\* mutant: "break" for the "continue" of worker.py:128
PriceUnavailable_Breaks ==
    /\ Goto(NextProduct(p))
    /\ UNCHANGED << db_last_price, db_last_checked, now >>

\* worker.py:122-128: the price is unavailable; logged, "continue"
PriceUnavailable ==
    /\ Goto(NextComp(p, k))
    /\ UNCHANGED << db_last_price, db_last_checked, now >>

\* worker.py:130-131, 154: the price is there; the time is read, the prices compared
PriceAvailable(r) ==
    /\ now' = utcnow
    /\ pc' = IF _prices_changed(products[comp], r)
             THEN "alert_fn" ELSE "update_checked"
    /\ UNCHANGED << p, k, db_last_price, db_last_checked >>

\* worker.py:122-131: the branch on the competitor's price
CompGotPrice(r) ==
    /\ current_comp_price' = r
    /\ IF IsNone(r) THEN PriceUnavailable ELSE PriceAvailable(r)
    /\ kept' = IF IsNone(r) THEN [kept EXCEPT ![comp] = Some(db_last_price[comp])]
               ELSE kept
    /\ visited' = Append(visited, <<"comp", comp>>)
    /\ last_comp' = comp
    /\ alert_calls' = 0
    /\ alert_sent' = NoAlert
    /\ alert_raised' = FALSE
    /\ wrote' = "none"
    /\ UNCHANGED << db_client_price, run, products, client_price, crash_cause >>

\* worker.py:121: scraper.get_price(comp.url) returns
CompGetPrice ==
    /\ pc = "comp_get_price"
    /\ \E r \in OptPrice : CompGotPrice(r)

\* worker.py:121 with main.py:260,264: get_price raises
CompGetPriceRaises ==
    /\ pc = "comp_get_price"
    /\ Crash("get_price")
    /\ ClearIteration
    /\ UNCHANGED << db_last_price, db_last_checked, db_client_price, run,
                    products, client_price, current_comp_price, now, visited,
                    kept >>

\* worker.py:133-142: the arguments of the alert_fn call
AlertArgs ==
    [comp |-> comp, old_p |-> products[comp], new_p |-> current_comp_price,
     client_p |-> client_price]

\* worker.py:132-142: alert_fn returns
AlertFn ==
    /\ pc = "alert_fn"
    /\ alert_calls' = alert_calls + 1
    /\ alert_sent' = AlertArgs
    /\ pc' = "update_competitor"
    /\ UNCHANGED << db_last_price, db_last_checked, db_client_price, run,
                    p, k, products, client_price, current_comp_price, now,
                    visited, last_comp, alert_raised, wrote, crash_cause, kept >>

\* mutant: the handler of worker.py:143 skips the rest of the iteration
AlertFnRaises_SkipsWrite ==
    /\ pc = "alert_fn"
    /\ alert_calls' = alert_calls + 1
    /\ alert_sent' = AlertArgs
    /\ alert_raised' = TRUE
    /\ Goto(NextComp(p, k))
    /\ UNCHANGED << db_last_price, db_last_checked, db_client_price, run,
                    products, client_price, current_comp_price, now,
                    visited, last_comp, wrote, crash_cause, kept >>

\* mutant: no try/except around the alert_fn call of worker.py:133
AlertFnRaises_Propagates ==
    /\ pc = "alert_fn"
    /\ alert_calls' = alert_calls + 1
    /\ alert_sent' = AlertArgs
    /\ alert_raised' = TRUE
    /\ Crash("alert_fn")
    /\ UNCHANGED << db_last_price, db_last_checked, db_client_price, run,
                    products, client_price, current_comp_price, now,
                    visited, last_comp, wrote, kept >>

\* worker.py:143-148: alert_fn raises; the exception is caught and logged
AlertFnRaises ==
    /\ pc = "alert_fn"
    /\ alert_calls' = alert_calls + 1
    /\ alert_sent' = AlertArgs
    /\ alert_raised' = TRUE
    /\ pc' = "update_competitor"
    /\ UNCHANGED << db_last_price, db_last_checked, db_client_price, run,
                    p, k, products, client_price, current_comp_price, now,
                    visited, last_comp, wrote, crash_cause, kept >>

\* worker.py:149-153: the changed price is written
UpdateCompetitor ==
    /\ pc = "update_competitor"
    /\ update_competitor(comp, current_comp_price, Some(now))
    /\ wrote' = "last_price"
    /\ kept' = [kept EXCEPT ![comp] = << >>]
    /\ Goto(NextComp(p, k))
    /\ UNCHANGED << db_client_price, run, products, client_price,
                    current_comp_price, now, visited, last_comp, alert_calls,
                    alert_sent, alert_raised, crash_cause >>

\* worker.py:161: an unchanged price; only last_checked is written
UpdateCompetitorChecked ==
    /\ pc = "update_checked"
    /\ update_competitor(comp, None, Some(now))
    /\ wrote' = "last_checked"
    /\ kept' = [kept EXCEPT ![comp] = << >>]
    /\ Goto(NextComp(p, k))
    /\ UNCHANGED << db_client_price, run, products, client_price,
                    current_comp_price, now, visited, last_comp, alert_calls,
                    alert_sent, alert_raised, crash_cause >>

\* worker.py:149,161 with supabase_db.py:92,105: the write raises
UpdateCompetitorRaises ==
    /\ pc \in {"update_competitor", "update_checked"}
    /\ wrote' = "raised"
    /\ Crash("update_competitor")
    /\ UNCHANGED << db_last_price, db_last_checked, db_client_price, run,
                    products, client_price, current_comp_price, now, visited,
                    last_comp, alert_calls, alert_sent, alert_raised, kept >>

WorkerInit ==
    /\ db_last_price \in [Comps -> OptPrice]
    /\ db_last_checked = [c \in Comps |-> 0]
    /\ db_client_price = [prod \in Products |-> None]
    /\ run = 0
    /\ pc = "idle"
    /\ p = 1
    /\ k = 0
    /\ products = [c \in Comps |-> None]
    /\ client_price = None
    /\ current_comp_price = None
    /\ now = 0
    /\ visited = << >>
    /\ last_comp = NoComp
    /\ alert_calls = 0
    /\ alert_sent = NoAlert
    /\ alert_raised = FALSE
    /\ wrote = "none"
    /\ crash_cause = "none"
    /\ kept = [c \in Comps |-> << >>]


----------------------------------------------------------------------------
(* main.py: values                                                         *)

(* A JSON value, as response.json() returns it, is a record tagged with its *)
(* Python type; a dict carries its items as a function from keys to values. *)
JNull == [t |-> "NoneType"]
JNum(n) == [t |-> "int", n |-> n]
JStr(s) == [t |-> "str", s |-> s]
JList(n) == [t |-> "list", len |-> n]
JDict(items) == [t |-> "dict", items |-> items]

\* bool(value), as in "if data:" (main.py:259) and "x or y" (main.py:180)
Truthy(j) ==
    CASE j.t = "NoneType" -> FALSE
      [] j.t = "int" -> j.n # 0
      [] j.t = "str" -> j.s # << >>
      [] j.t = "list" -> j.len > 0
      [] j.t = "dict" -> DOMAIN j.items # {}

\* dict.get(key): the value, or None
Get(d, key) == IF key \in DOMAIN d.items THEN d.items[key] ELSE JNull

(* A text is a sequence of tokens.  A "usd" token is a substring that the    *)
(* pattern of main.py:41 matches, with the amount that float() makes of it,  *)
(* in hundredths; a "word" token is text the pattern does not match.         *)
Word == [tok |-> "word", amount |-> 0]
Usd(n) == [tok |-> "usd", amount |-> n]

\* main.py:38-48 on a str: the first match of the pattern, or None
RECURSIVE FirstUsd(_)
FirstUsd(text) ==
    IF text = << >> THEN None
    ELSE IF Head(text).tok = "usd" THEN Some(Head(text).amount)
    ELSE FirstUsd(Tail(text))

\* main.py:38-48: [raises, price]; re.search raises TypeError on a non-str
_extract_first_price(text) ==
    IF ~Truthy(text) THEN [raises |-> FALSE, price |-> None]
    ELSE IF text.t # "str" THEN [raises |-> TRUE, price |-> None]
    ELSE [raises |-> FALSE, price |-> FirstUsd(text.s)]

\* main.py:174-183: [raises, price, title]
_extract_price_from_jina(data) ==
    LET payload == IF data.t = "dict" /\ Get(data, "data").t = "dict"
                   THEN Get(data, "data") ELSE data
    IN IF payload.t # "dict"
       THEN [raises |-> FALSE, price |-> None, title |-> JNull]
       ELSE LET c == Get(payload, "content")
                content == IF Truthy(c) THEN c ELSE JStr(<< >>)
                found == _extract_first_price(content)
            IN [raises |-> found.raises, price |-> found.price,
                title |-> Get(payload, "title")]

(* An HTTP response to httpx.get (main.py:236): the call raises (timeout,   *)
(* transport error), or returns a status and a body.  A body is JSON text,  *)
(* text with a JSON object embedded in it, or text that holds no JSON.      *)
Raised == [kind |-> "exception", status |-> 0, text |-> "none", json |-> JNull]
Status(code) == [kind |-> "response", status |-> code, text |-> "none", json |-> JNull]
Body(text, json) == [kind |-> "response", status |-> 200, text |-> text, json |-> json]

\* main.py:25-36 on a text that json.loads rejects
_parse_json(resp) == IF resp.text = "embedded" THEN resp.json ELSE JNull

\* main.py:230-247: [data, error]; data is None (JNull) on failure
_fetch_json(resp) ==
    IF resp.kind = "exception" THEN [data |-> JNull, error |-> <<"timed out">>]
    ELSE IF resp.status # 200
         THEN [data |-> JNull, error |-> <<"Status", resp.status>>]
    ELSE IF resp.text = "json" THEN [data |-> resp.json, error |-> <<"None">>]
    ELSE IF _parse_json(resp) = JNull
         THEN [data |-> JNull, error |-> <<"Invalid JSON">>]
    ELSE [data |-> _parse_json(resp), error |-> <<"None">>]

----------------------------------------------------------------------------
(* main.py: URLs and candidates                                            *)

(* A URL is a record [scheme, host, path]: the host is a sequence of name   *)
(* parts, so that a leading "www." can be tested, removed and added, and   *)
(* the path is the sequence of its segments.  The empty string is NoUrl.    *)
NoUrl == [scheme |-> "", host |-> << >>, path |-> << >>]

\* the elements of seq in order, without the empty ones and the repeated ones
RECURSIVE Ordered(_, _)
Ordered(seq, seen) ==
    IF seq = << >> THEN << >>
    ELSE IF Head(seq) = << >> \/ Head(seq) \in seen
         THEN Ordered(Tail(seq), seen)
    ELSE << Head(seq) >> \o Ordered(Tail(seq), seen \cup {Head(seq)})

\* main.py:6-23: the host as given, then without or with "www."
_vendor_candidates(v) ==
    IF v = << >> THEN << >>
    ELSE Ordered(<< v, IF Head(v) = "www." THEN Tail(v) ELSE << "www." >> \o v >>, {})

\* main.py:193-209: the product-API paths of a handle
_path_candidates(h) ==
    IF h = "" THEN << >>
    ELSE Ordered(<< <<"/products/", h, ".js">>, <<"/", h, ".js">> >>, {})

\* main.py:211-228: the page paths of a handle, the root page last
_page_candidates(h) ==
    Ordered((IF h = "" THEN << >> ELSE << <<"/", h>>, <<"/products/", h>> >>)
            \o << <<"/">> >>, {})

\* main.py:185-191: a URL without a scheme gets https://
_normalize_url(url) ==
    IF url = NoUrl THEN NoUrl
    ELSE IF url.scheme \in {"http://", "https://"} THEN url
    ELSE [url EXCEPT !.scheme = "https://"]

\* main.py:310: the last segment of the path, or ""
HandleOf(url) == IF url.path = << >> THEN "" ELSE url.path[Len(url.path)]

\* main.py:256-280: the requests of one host, product-API paths before pages
Candidates(h) ==
    [i \in 1..Len(_path_candidates(h)) |->
        [path |-> _path_candidates(h)[i], jina |-> FALSE]]
    \o [i \in 1..Len(_page_candidates(h)) |->
        [path |-> _page_candidates(h)[i], jina |-> TRUE]]

----------------------------------------------------------------------------
(* main.py: one attempt of the cascade                                     *)

Failed(error) == [kind |-> "failed", error |-> error, result |-> << >>]
Raises == [kind |-> "raised", error |-> << >>, result |-> << >>]
Succeeds(res) == [kind |-> "success", error |-> << >>, result |-> << res >>]

\* main.py:264-276: the result built from a product record
ShopifyResult(host, data) ==
    LET price == Get(data, "price").n
        raw_compare == Get(data, "compare_at_price")
        compare_at == IF Truthy(raw_compare) THEN Some(raw_compare.n) ELSE None
    IN [vendor |-> host, product |-> Get(data, "title"),
        current_price |-> Some(price), msrp |-> compare_at,
        on_sale |-> Some(~IsNone(compare_at) /\ price < Val(compare_at)),
        status |-> "success", source |-> "shopify_js", raw |-> JNull]

\* main.py:258-278: one product-API request and what is made of its response.
\* data.get raises on a value that is no dict, and "/ 100" on one that is no
\* number.
ApiAttempt(host, resp) ==
    LET fetched == _fetch_json(resp)
        data == fetched.data
    IN IF ~Truthy(data) THEN Failed(fetched.error)
       ELSE IF data.t # "dict" THEN Raises
       ELSE IF Get(data, "price") = JNull THEN Failed(<<"Missing price">>)
       ELSE IF Get(data, "price").t # "int" THEN Raises
       ELSE IF Truthy(Get(data, "compare_at_price"))
               /\ Get(data, "compare_at_price").t # "int" THEN Raises
       ELSE Succeeds(ShopifyResult(host, data))

\* main.py:282-300: one page request through the proxy
JinaAttempt(host, h, resp) ==
    LET fetched == _fetch_json(resp)
        data == fetched.data
        found == _extract_price_from_jina(data)
    IN IF ~Truthy(data) THEN Failed(fetched.error)
       ELSE IF found.raises THEN Raises
       ELSE IF IsNone(found.price) THEN Failed(<<"Price not found">>)
       ELSE Succeeds([vendor |-> host,
                      product |-> IF Truthy(found.title) THEN found.title
                                  ELSE JStr(<< h >>),
                      current_price |-> found.price, msrp |-> None,
                      on_sale |-> None, status |-> "success", source |-> "jina"])

\* mutant: the loop of main.py:255 stops after the first host
NextAttempt_FirstHostOnly(v, h, host_i, cand_i) ==
    IF cand_i < Len(Candidates(h)) THEN [hi |-> host_i, ci |-> cand_i + 1]
    ELSE [hi |-> 0, ci |-> 0]

\* main.py:255,256,280: the place of the attempt after (host_i, cand_i), or
\* hi = 0 when the loops are over
NextAttempt(v, h, host_i, cand_i) ==
    IF cand_i < Len(Candidates(h)) THEN [hi |-> host_i, ci |-> cand_i + 1]
    ELSE IF host_i < Len(_vendor_candidates(v)) THEN [hi |-> host_i + 1, ci |-> 1]
    ELSE [hi |-> 0, ci |-> 0]

\* main.py:302
FailureResult(v, error) ==
    [vendor |-> v, error |-> IF error = << >> THEN <<"No vendor candidates">> ELSE error]

\* result.get("status") == "success" (main.py:313)
IsSuccess(res) == "status" \in DOMAIN res /\ res.status = "success"

----------------------------------------------------------------------------
(* main.py: the responses and the inputs the cascade is run on              *)

Title == JStr(<< Word >>)
Product(price) == JDict([price |-> price, title |-> Title])
Page(content) == JDict([data |-> JDict([content |-> content, title |-> Title])])

\* product records: a price of $19.99, $0.00, -$5.00, null, a string; with a
\* compare-at price; without a price
ProductBodies ==
    { Product(JNum(1999)), Product(JNum(0)), Product(JNum(0 - 500)),
      Product(JNull), Product(JStr(<< Usd(1999) >>)),
      JDict([price |-> JNum(1999), compare_at_price |-> JNum(2999), title |-> Title]),
      JDict([price |-> JNum(1999), compare_at_price |-> JStr(<< Usd(2999) >>)]),
      JDict([title |-> Title]) }

\* proxy records: content with a price after other text, with $0, without a
\* price, empty, not a string, absent; the same without the "data" wrapper
PageBodies ==
    { Page(JStr(<< Word, Usd(2499), Usd(500) >>)), Page(JStr(<< Usd(0) >>)),
      Page(JStr(<< Word >>)), Page(JStr(<< >>)), Page(JNum(5)),
      JDict([data |-> JDict([title |-> Title])]),
      JDict([content |-> JStr(<< Usd(2499) >>)]) }

Responses ==
    { Raised, Status(404), Status(503), Body("garbage", JNull) }
    \cup { Body("json", j) : j \in ProductBodies \cup PageBodies
                                   \cup { JNull, JList(0), JList(1) } }
    \cup { Body("embedded", Product(JNum(1999))), Body("embedded", Page(JStr(<< Word >>))) }

Hosts == { << "shop.com" >>, << "www.", "shop.com" >> }
Urls ==
    { NoUrl } \cup
    { [scheme |-> sc, host |-> h, path |-> pa] :
        sc \in {"", "https://"}, h \in Hosts,
        pa \in { << >>, << "widget" >>, << "products", "widget" >> } }
Vendors == Hosts \cup { << >>, << "www." >> }
Handles == { "", "widget" }

----------------------------------------------------------------------------
(* main.py: get_price and fetch_shopify_js, one step per request            *)

\* fetch_shopify_js returns res to its caller; get_price goes on at main.py:313
FssReturns(res) ==
    /\ result' = << res >>
    /\ IF g_call = "fetch_shopify_js"
       THEN g_pc' = "returned" /\ ret' = ret
       ELSE IF IsSuccess(res)
            THEN g_pc' = "returned" /\ ret' = res.current_price
            ELSE g_pc' = "jina" /\ ret' = ret

\* main.py:249-255: fetch_shopify_js(v, h) is entered
FssEnters(v, h) ==
    /\ vendor' = v
    /\ handle' = h
    /\ last_error' = << >>
    /\ IF _vendor_candidates(v) = << >>
       THEN /\ FssReturns(FailureResult(v, << >>))
            /\ hi' = 0 /\ ci' = 0
       ELSE /\ g_pc' = "fetch_shopify_js"
            /\ hi' = 1 /\ ci' = 1
            /\ UNCHANGED << result, ret >>

\* main.py:304-315: get_price(url) is called
GetPrice ==
    /\ g_pc = "idle"
    /\ g_call' = "get_price"
    /\ \E url \in Urls :
         /\ full_url' = _normalize_url(url)
         /\ IF full_url' = NoUrl
            THEN /\ g_pc' = "returned" /\ ret' = None
                 /\ UNCHANGED << vendor, handle, hi, ci, last_error, result >>
            ELSE IF full_url'.host # << >> /\ HandleOf(full_url') # ""
            THEN FssEnters(full_url'.host, HandleOf(full_url'))
            ELSE /\ g_pc' = "jina"
                 /\ UNCHANGED << vendor, handle, hi, ci, last_error, result, ret >>
    /\ UNCHANGED << requests, attempt_error >>

\* main.py:249: fetch_shopify_js(vendor, handle) is called on its own
FetchShopifyJs ==
    /\ g_pc = "idle"
    /\ g_call' = "fetch_shopify_js"
    /\ \E v \in Vendors, h \in Handles : FssEnters(v, h)
    /\ UNCHANGED << full_url, requests, attempt_error >>

\* main.py:256-300: one request of fetch_shopify_js and what follows from it
FssRequest ==
    /\ g_pc = "fetch_shopify_js"
    /\ \E resp \in Responses :
         LET host == _vendor_candidates(vendor)[hi]
             cand == Candidates(handle)[ci]
             out == IF cand.jina THEN JinaAttempt(host, handle, resp)
                    ELSE ApiAttempt(host, resp)
             next == NextAttempt(vendor, handle, hi, ci)
             error == << host, cand.path, cand.jina, out.error >>
         IN /\ requests' = Append(requests,
                   [by |-> "fetch_shopify_js", host |-> host, path |-> cand.path,
                    jina |-> cand.jina, outcome |-> out.kind])
            /\ attempt_error' = IF out.kind = "failed" THEN out.error
                                ELSE attempt_error
            /\ CASE out.kind = "raised" ->
                      /\ g_pc' = "raised"
                      /\ UNCHANGED << hi, ci, last_error, result, ret >>
                 [] out.kind = "success" ->
                      /\ FssReturns(out.result[1])
                      /\ UNCHANGED << hi, ci, last_error >>
                 [] out.kind = "failed" ->
                      /\ last_error' = error
                      /\ hi' = next.hi /\ ci' = next.ci
                      /\ IF next.hi = 0
                         THEN FssReturns(FailureResult(vendor, error))
                         ELSE UNCHANGED << g_pc, result, ret >>
    /\ UNCHANGED << g_call, full_url, vendor, handle >>

\* mutant: the request for the URL itself is made again when it fails
GetPriceJina_Retries ==
    /\ g_pc = "jina"
    /\ \E resp \in Responses :
         LET data == _fetch_json(resp).data
             found == _extract_price_from_jina(data)
             out == IF ~Truthy(data) THEN "failed"
                    ELSE IF found.raises THEN "raised"
                    ELSE IF IsNone(found.price) THEN "failed" ELSE "success"
         IN /\ requests' = Append(requests,
                   [by |-> "get_price", host |-> full_url.host,
                    path |-> full_url.path, jina |-> TRUE, outcome |-> out])
            /\ g_pc' = IF out = "raised" THEN "raised"
                        ELSE IF out = "failed" THEN "jina" ELSE "returned"
            /\ ret' = IF out = "success" THEN found.price
                       ELSE IF out = "failed" THEN None ELSE ret
    /\ UNCHANGED << g_call, full_url, vendor, handle, hi, ci, last_error, result,
                    attempt_error >>

\* main.py:315-319: the request for the URL itself through the proxy
GetPriceJina ==
    /\ g_pc = "jina"
    /\ \E resp \in Responses :
         LET data == _fetch_json(resp).data
             found == _extract_price_from_jina(data)
             out == IF ~Truthy(data) THEN "failed"
                    ELSE IF found.raises THEN "raised"
                    ELSE IF IsNone(found.price) THEN "failed" ELSE "success"
         IN /\ requests' = Append(requests,
                   [by |-> "get_price", host |-> full_url.host,
                    path |-> full_url.path, jina |-> TRUE, outcome |-> out])
            /\ g_pc' = IF out = "raised" THEN "raised" ELSE "returned"
            /\ ret' = IF out = "success" THEN found.price
                       ELSE IF out = "failed" THEN None ELSE ret
    /\ UNCHANGED << g_call, full_url, vendor, handle, hi, ci, last_error, result,
                    attempt_error >>

CascadeIdle ==
    /\ g_call = "none"
    /\ g_pc = "idle"
    /\ full_url = NoUrl
    /\ vendor = << >>
    /\ handle = ""
    /\ hi = 0
    /\ ci = 0
    /\ last_error = << >>
    /\ result = << >>
    /\ ret = None
    /\ requests = << >>
    /\ attempt_error = << >>


----------------------------------------------------------------------------
(* guardian.run_once: runs of check_all_prices, the scraper's calls taken   *)
(* by their outcome                                                        *)

----------------------------------------------------------------------------
(* main.py:51-173: the text extractors                                      *)
(* A text is a sequence of tokens separated by blanks.  Next to "word" and   *)
(* "usd" there is a "num" token (one or two digits, with its value) and one  *)
(* token for each phrase the patterns name.  A token written with capitals  *)
(* is the phrase as a page may print it; str.lower gives the token the       *)
(* patterns name.                                                            *)

Num(n) == [tok |-> "num", amount |-> n]
T(kind) == [tok |-> kind, amount |-> 0]

\* str.lower of one token
LowerTok(tok) ==
    CASE tok = "Sold Out" -> "sold out"
      [] tok = "Unavailable" -> "unavailable"
      [] tok = "Pre-Order" -> "pre-order"
      [] tok = "Ready to Ship" -> "ready to ship"
      [] tok = "In Stock" -> "in stock"
      [] OTHER -> tok

\* main.py:54,69,107,133: text.lower()
Lower(text) == [i \in 1..Len(text) |-> [text[i] EXCEPT !.tok = LowerTok(@)]]

\* an element of a pattern: the tokens it matches, the number of the group it
\* captures (0: none), whether it may be absent ("?")
El(kinds, group, optional) == [kinds |-> kinds, group |-> group, optional |-> optional]

\* re.match of the elements pat at place i of the text: [ok, groups]; an
\* optional element is taken when the rest still matches with it (greedy)
RECURSIVE MatchAt(_, _, _, _)
MatchAt(pat, text, i, groups) ==
    IF pat = << >> THEN [ok |-> TRUE, groups |-> groups]
    ELSE LET e == Head(pat)
             fits == i <= Len(text) /\ text[i].tok \in e.kinds
             taken == IF fits
                      THEN MatchAt(Tail(pat), text, i + 1,
                                   IF e.group > 0
                                   THEN [groups EXCEPT ![e.group] = Some(text[i])]
                                   ELSE groups)
                      ELSE [ok |-> FALSE, groups |-> groups]
         IN IF taken.ok THEN taken
            ELSE IF e.optional THEN MatchAt(Tail(pat), text, i, groups)
            ELSE [ok |-> FALSE, groups |-> groups]

\* re.search(pattern, text): the leftmost match; n is the number of groups
RECURSIVE SearchFrom(_, _, _, _)
SearchFrom(pat, n, text, i) ==
    IF i > Len(text) THEN [ok |-> FALSE, groups |-> [g \in 1..n |-> None]]
    ELSE LET m == MatchAt(pat, text, i, [g \in 1..n |-> None])
         IN IF m.ok THEN m ELSE SearchFrom(pat, n, text, i + 1)

Search(pat, n, text) == SearchFrom(pat, n, text, 1)

\* int(match.group(g)): TypeError on None, ValueError on text without digits
IntOf(group) ==
    IF IsNone(group) THEN [raises |-> TRUE, n |-> 0]
    ELSE IF Val(group).tok # "num" THEN [raises |-> TRUE, n |-> 0]
    ELSE [raises |-> FALSE, n |-> Val(group).amount]

Returns(value) == [raises |-> FALSE, value |-> value]
Raising == [raises |-> TRUE, value |-> None]

\* mutant: "in stock" is looked for before the low-stock phrases
_extract_stock_status_InStockFirst(text) ==
    LET lowered == Lower(text)
        out == Search(<< El({"out of stock", "sold out", "unavailable"}, 1, FALSE) >>,
                      1, lowered).ok
        back == Search(<< El({"backorder", "backordered", "pre-order", "preorder"},
                            1, FALSE) >>, 1, lowered).ok
        low == \/ Search(<< El({"low stock", "limited stock"}, 1, FALSE) >>, 1, lowered).ok
               \/ Search(<< El({"only"}, 0, FALSE), El({"num", "thousands"}, 0, FALSE),
                             El({"left"}, 0, FALSE) >>, 1, lowered).ok
        instock == Search(<< El({"in stock", "available now", "ready to ship"}, 1, FALSE) >>,
                     1, lowered).ok
    IN IF text = << >> THEN Returns(None)
       ELSE IF out THEN Returns(Some("Out of Stock"))
       ELSE IF back THEN Returns(Some("Backordered"))
       ELSE IF instock THEN Returns(Some("In Stock"))
       ELSE IF low THEN Returns(Some("Low Stock"))
       ELSE Returns(None)

\* main.py:51-63: the groups of phrases are looked for in the lowered text,
\* one group after the other ("pre-order" stands for "pre order" as well)
_extract_stock_status(text) ==
    LET lowered == Lower(text)
        out == Search(<< El({"out of stock", "sold out", "unavailable"}, 1, FALSE) >>,
                      1, lowered).ok
        back == Search(<< El({"backorder", "backordered", "pre-order", "preorder"},
                            1, FALSE) >>, 1, lowered).ok
        low == \/ Search(<< El({"low stock", "limited stock"}, 1, FALSE) >>, 1, lowered).ok
               \/ Search(<< El({"only"}, 0, FALSE), El({"num", "thousands"}, 0, FALSE),
                             El({"left"}, 0, FALSE) >>, 1, lowered).ok
        instock == Search(<< El({"in stock", "available now", "ready to ship"}, 1, FALSE) >>,
                     1, lowered).ok
    IN IF text = << >> THEN Returns(None)
       ELSE IF out THEN Returns(Some("Out of Stock"))
       ELSE IF back THEN Returns(Some("Backordered"))
       ELSE IF low THEN Returns(Some("Low Stock"))
       ELSE IF instock THEN Returns(Some("In Stock"))
       ELSE Returns(None)

\* main.py:70-78: the patterns, each with its kind and its number of groups
ShippingPatterns ==
    << [kind |-> "range", n |-> 3,
        pat |-> << El({"estimated delivery"}, 0, FALSE), El({"num"}, 1, FALSE),
                   El({"dash"}, 0, FALSE), El({"num"}, 2, FALSE),
                   El({"business"}, 3, TRUE), El({"day", "days"}, 0, FALSE) >>],
       [kind |-> "single", n |-> 2,
        pat |-> << El({"estimated delivery"}, 0, FALSE), El({"num"}, 1, FALSE),
                   El({"business"}, 2, TRUE), El({"day", "days"}, 0, FALSE) >>],
       [kind |-> "range", n |-> 4,
        pat |-> << El({"free"}, 1, TRUE), El({"num"}, 2, FALSE),
                   El({"dash"}, 0, FALSE), El({"num"}, 3, FALSE),
                   El({"business"}, 4, TRUE), El({"day", "days"}, 0, FALSE) >>],
       [kind |-> "single", n |-> 2,
        pat |-> << El({"free"}, 1, TRUE), El({"num"}, 2, FALSE),
                   El({"day"}, 0, FALSE), El({"shipping"}, 0, FALSE) >>],
       [kind |-> "ships_days", n |-> 2,
        pat |-> << El({"ships in"}, 0, FALSE), El({"num"}, 1, FALSE),
                   El({"business"}, 2, TRUE), El({"day", "days"}, 0, FALSE) >>],
       [kind |-> "ships_weeks", n |-> 2,
        pat |-> << El({"ships in"}, 0, FALSE), El({"num"}, 1, FALSE),
                   El({"weeks"}, 2, FALSE) >>],
       [kind |-> "ships_days", n |-> 2,
        pat |-> << El({"delivery in"}, 0, FALSE), El({"num"}, 1, FALSE),
                   El({"business"}, 2, TRUE), El({"day", "days"}, 0, FALSE) >>] >>

\* a label and a number of days, the days counted in halves ((low + high) / 2)
Estimate(form, a, b, halves) ==
    Returns(Some([form |-> form, a |-> a, b |-> b, halves |-> halves]))

\* main.py:83-100: what a match of one pattern gives
ShippingOf(kind, groups) ==
    CASE kind = "range" ->
           LET low == IntOf(groups[2])
               high == IntOf(groups[3])
           IN IF low.raises \/ high.raises THEN Raising
              ELSE Estimate(IF IsNone(groups[1]) THEN "Ships in {low}-{high} days"
                            ELSE "Free {low}-{high} day shipping",
                            low.n, high.n, low.n + high.n)
      [] kind = "single" ->
           LET days == IntOf(groups[2])
           IN IF days.raises THEN Raising
              ELSE Estimate(IF IsNone(groups[1]) THEN "{days}-day shipping"
                            ELSE "Free {days}-day shipping",
                            days.n, days.n, 2 * days.n)
      [] kind = "ships_days" ->
           LET days == IntOf(groups[1])
           IN IF days.raises THEN Raising
              ELSE Estimate("Ships in {days} days", days.n, days.n, 2 * days.n)
      [] kind = "ships_weeks" ->
           LET weeks == IntOf(groups[1])
           IN IF weeks.raises THEN Raising
              ELSE Estimate("Ships in {weeks} weeks", weeks.n, weeks.n, 14 * weeks.n)

\* main.py:79-101: the first pattern that matches decides
RECURSIVE ShippingFrom(_, _)
ShippingFrom(text, j) ==
    IF j > Len(ShippingPatterns) THEN Returns(None)
    ELSE LET m == Search(ShippingPatterns[j].pat, ShippingPatterns[j].n, text)
         IN IF m.ok THEN ShippingOf(ShippingPatterns[j].kind, m.groups)
            ELSE ShippingFrom(text, j + 1)

\* main.py:66-101: value is the pair (label, days), None for (None, None)
_extract_shipping_estimate(text) ==
    IF text = << >> THEN Returns(None) ELSE ShippingFrom(Lower(text), 1)

\* float(match.group(1)) of main.py:142, in hundredths; of a number written
\* with separators the group is the part before the first separator
FloatOf(group) ==
    CASE Val(group).tok = "num" -> 100 * Val(group).amount
      [] Val(group).tok = "thousands" -> 100 * (Val(group).amount \div 1000)
      [] OTHER -> Val(group).amount

\* main.py:130-144; a "usd" token here is an amount below $10,000 written
\* without a thousands separator
_extract_shipping_cost(text) ==
    IF text = << >> THEN Returns(None)
    ELSE IF Search(<< El({"free"}, 0, FALSE), El({"shipping"}, 0, FALSE) >>, 1,
                   Lower(text)).ok
         THEN Returns(Some(0))
    ELSE LET after == Search(<< El({"shipping"}, 0, FALSE), El({"costs"}, 0, TRUE),
                                El({"usd", "num", "thousands"}, 1, FALSE) >>, 1,
                             Lower(text))
             before == Search(<< El({"usd"}, 1, FALSE), El({"shipping"}, 0, FALSE) >>,
                              1, Lower(text))
         IN IF after.ok THEN Returns(Some(FloatOf(after.groups[1])))
            ELSE IF before.ok THEN Returns(Some(FloatOf(before.groups[1])))
            ELSE Returns(None)

\* the kinds of token there are
TokenKinds ==
    { "word", "usd", "num", "thousands", "dash", "business", "day", "days",
      "shipping", "estimated delivery", "free", "ships in", "weeks",
      "delivery in", "out of stock", "sold out", "unavailable", "backorder",
      "backordered", "pre-order", "preorder", "low stock", "limited stock",
      "only", "left", "in stock", "available now", "ready to ship", "costs", "code", "off", "sale", "year", "warranty", "reviews" }

\* the tokens that begin with three letters or digits ([a-z0-9]{3,12}\b)
CodeKinds == TokenKinds \ { "usd", "num", "thousands", "dash", "off" }

\* the text with the whole-dollar amounts marked ("$5", not "$5.00")
WholeDollars(text) ==
    [i \in 1..Len(text) |->
        IF text[i].tok = "usd" /\ text[i].amount % 100 = 0
        THEN [tok |-> "usd whole", amount |-> text[i].amount]
        ELSE text[i]]

\* the text as the pattern of main.py:109 reads it: the one or two digits
\* before "off" are the cents of an amount written with cents, and the dollars
\* of an amount below $100 written without
TwoDigits(text) ==
    [i \in 1..Len(text) |->
        IF text[i].tok = "usd" /\ text[i].amount % 100 # 0
        THEN Num(text[i].amount % 100)
        ELSE IF text[i].tok = "usd" /\ text[i].amount < 10000
        THEN Num(text[i].amount \div 100)
        ELSE text[i]]

\* main.py:104-127: value is the kind of string returned, with the amount and
\* the code it is made of
_extract_discount_code(text) ==
    IF text = << >> THEN Returns(None)
    ELSE LET code_match == Search(<< El({"code"}, 0, FALSE), El(CodeKinds, 1, FALSE) >>,
                                  1, Lower(text))
             discount_match == Search(<< El({"num"}, 1, FALSE), El({"off"}, 0, FALSE) >>,
                                      1, TwoDigits(Lower(text)))
             dollars_match == Search(<< El({"usd whole"}, 1, FALSE),
                                        El({"off"}, 0, FALSE) >>, 1,
                                     WholeDollars(Lower(text)))
             keyword_match == Search(<< El({"sale"}, 1, FALSE) >>, 1, Lower(text))
             code == IF code_match.ok THEN code_match.groups[1] ELSE None
             amount == IF discount_match.ok THEN discount_match.groups[1]
                       ELSE IF dollars_match.ok THEN dollars_match.groups[1]
                       ELSE None
             Str(form) == Returns(Some([form |-> form, amount |-> amount, code |-> code]))
         IN IF ~IsNone(code) /\ ~IsNone(amount) THEN Str("{amount} (CODE {code})")
            ELSE IF ~IsNone(code) THEN Str("CODE {code}")
            ELSE IF ~IsNone(amount) THEN Str("{amount}")
            ELSE IF keyword_match.ok THEN Str("Promo active")
            ELSE Returns(None)

\* main.py:147-158
_extract_warranty_years(text) ==
    IF text = << >> THEN Returns(None)
    ELSE LET first == Search(<< El({"num"}, 1, FALSE), El({"year"}, 0, FALSE),
                                El({"warranty"}, 0, FALSE) >>, 1, text)
             second == Search(<< El({"warranty"}, 0, FALSE), El({"num"}, 1, FALSE),
                                 El({"year"}, 0, FALSE) >>, 1, text)
         IN IF first.ok THEN Returns(Some(Val(first.groups[1]).amount))
            ELSE IF second.ok THEN Returns(Some(Val(second.groups[1]).amount))
            ELSE Returns(None)

\* main.py:161-173; a "thousands" token is a number written with separators
_extract_review_count(text) ==
    IF text = << >> THEN Returns(None)
    ELSE LET first == Search(<< El({"thousands"}, 1, FALSE), El({"reviews"}, 0, FALSE) >>,
                             1, text)
             second == Search(<< El({"num"}, 1, FALSE), El({"reviews"}, 0, FALSE) >>,
                              1, text)
         IN IF first.ok THEN Returns(Some(Val(first.groups[1]).amount))
            ELSE IF second.ok THEN Returns(Some(Val(second.groups[1]).amount))
            ELSE Returns(None)

\* an extractor of main.py:51-173 applied to a value that need not be a str:
\* "not text" returns None, text.lower() and re.search raise on a non-str
OnText(content, extractor(_)) ==
    IF ~Truthy(content) THEN Returns(None)
    ELSE IF content.t # "str" THEN Raising
    ELSE extractor(content.s)

\* main.py:359-374: the fields get_product_snapshot reads from the page
ReadPage(data, price) ==
    LET is_dict == data.t = "dict"
        payload == IF is_dict /\ "data" \in DOMAIN data.items
                   THEN Get(data, "data") ELSE data
        c == IF is_dict /\ payload.t = "dict" THEN Get(payload, "content") ELSE JNull
        content == IF Truthy(c) THEN c ELSE JStr(<< >>)
        stock == OnText(content, _extract_stock_status)
        ship == OnText(content, _extract_shipping_estimate)
        cost == OnText(content, _extract_shipping_cost)
        discount == OnText(content, _extract_discount_code)
        reviews == OnText(content, _extract_review_count)
        warranty == OnText(content, _extract_warranty_years)
        found == _extract_price_from_jina(data)
    IN IF is_dict /\ payload.t # "dict" THEN Raising
       ELSE IF stock.raises \/ ship.raises \/ cost.raises \/ discount.raises
               \/ reviews.raises \/ warranty.raises THEN Raising
       ELSE IF IsNone(price) /\ found.raises THEN Raising
       ELSE Returns(Some([stock_status |-> stock.value,
                          shipping |-> ship.value,
                          shipping_cost |-> cost.value,
                          discount |-> discount.value,
                          review_count |-> reviews.value,
                          warranty_years |-> warranty.value,
                          price |-> IF IsNone(price) THEN found.price ELSE price]))

\* the phrasings the patterns of main.py:41-166 cover, one or more for each
Phrases ==
    { << T("estimated delivery"), Num(3), T("dash"), Num(5), T("days") >>,
      << T("estimated delivery"), Num(3), T("dash"), Num(5), T("business"), T("days") >>,
      << T("estimated delivery"), Num(5), T("days") >>,
      << T("estimated delivery"), Num(5), T("business"), T("days") >>,
      << T("free"), Num(3), T("dash"), Num(5), T("days") >>,
      << Num(3), T("dash"), Num(6), T("business"), T("days") >>,
      << T("free"), Num(2), T("day"), T("shipping") >>,
      << Num(2), T("day"), T("shipping") >>,
      << T("ships in"), Num(4), T("days") >>,
      << T("ships in"), Num(2), T("weeks") >>,
      << T("delivery in"), Num(7), T("business"), T("days") >>,
      << Num(2), T("dash"), T("day"), T("shipping") >>,
      << T("out of stock") >>, << T("preorder") >>, << T("low stock") >>,
      << T("in stock") >>,
      << T("Sold Out") >>, << T("Unavailable") >>, << T("Pre-Order") >>,
      << T("only"), Num(3), T("left") >>, << T("Ready to Ship") >>,
      << T("free"), T("shipping") >>,
      << T("shipping"), T("costs"), Usd(599) >>,
      << T("shipping"), Num(5) >>,
      << Usd(500), T("shipping") >>,
      << T("code"), Word >>, << T("code"), Num(5) >>,
      << Num(20), T("off") >>, << Usd(500), T("off") >>, << Usd(599), T("off") >>,
      << T("sale") >>,
      << Num(2), T("year"), T("warranty") >>,
      << T("warranty"), Num(5), T("year") >>,
      << [tok |-> "thousands", amount |-> 1234], T("reviews") >>,
      << Num(87), T("reviews") >>,
      << Usd(2499) >>, << Word >> }

\* page texts: nothing, one phrase, two phrases
Texts == { << >> } \cup Phrases \cup { a \o b : a \in Phrases, b \in Phrases }

\* what the proxy returns for a page: a record with the text; a content that
\* is not a string; a "data" that is not a record; a list
PageData ==
    { Page(JStr(t)) : t \in Texts }
    \cup { JDict([content |-> JStr(t)]) : t \in Phrases }
    \cup { Page(JNum(5)), JDict([data |-> JList(1)]), JDict([data |-> JNull]),
           JList(1) }

\* main.py:361-363 when the page has a text: payload.get("content") or ""
PageContent(data) ==
    LET payload == IF data.t = "dict" /\ "data" \in DOMAIN data.items
                   THEN Get(data, "data") ELSE data
        c == IF payload.t = "dict" THEN Get(payload, "content") ELSE JNull
    IN IF Truthy(c) THEN c ELSE JStr(<< >>)

\* one extractor is applied to the text of the page
Extract(fn, extractor(_)) ==
    /\ ex_fn = "none"
    /\ PageContent(ex_data).t = "str"
    /\ ex_fn' = fn
    /\ ex_out' = extractor(PageContent(ex_data).s)
    /\ UNCHANGED << ex_data, ex_price, ex_url, ex_html >>

FirstPriceOf(text) == Returns(_extract_first_price(JStr(text)).price)

ExtractFirstPrice == Extract("_extract_first_price", FirstPriceOf)
ExtractStockStatus == Extract("_extract_stock_status", _extract_stock_status)
ExtractShippingEstimate == Extract("_extract_shipping_estimate", _extract_shipping_estimate)
ExtractShippingCost == Extract("_extract_shipping_cost", _extract_shipping_cost)
ExtractDiscountCode == Extract("_extract_discount_code", _extract_discount_code)
ExtractWarrantyYears == Extract("_extract_warranty_years", _extract_warranty_years)
ExtractReviewCount == Extract("_extract_review_count", _extract_review_count)

\* main.py:359-374: get_product_snapshot reads the page it fetched
SnapshotReadsPage ==
    /\ ex_fn = "none"
    /\ Truthy(ex_data)
    /\ ex_fn' = "get_product_snapshot"
    /\ ex_out' = ReadPage(ex_data, ex_price)
    /\ UNCHANGED << ex_data, ex_price, ex_url, ex_html >>

\* main.py:322-323: the sentinels
PLACEHOLDER_MANUAL == "Manual Audit Required"
PLACEHOLDER_PENDING == "Data Pending"

\* the strings that are blank after strip().lower() (main.py:329)
BlankStrings == { "", "n/a", "na", "--" }

\* mutant: nothing needs a placeholder
_needs_placeholder_Never(value) == FALSE

\* main.py:326-331: value is None or Some(string)
_needs_placeholder(value) == IsNone(value) \/ Val(value) \in BlankStrings

\* the string of a value the extractors return as a record of its parts
FormOf(value) == IF IsNone(value) THEN None ELSE Some(Val(value).form)

\* main.py:337: the dict returned for a URL that is blank
EmptySnapshot == [keys |-> {}]

\* main.py:342-351, 356: the snapshot before the page is read
FreshSnapshot(price) ==
    [stock_status |-> None, shipping |-> None, shipping_cost |-> None,
     discount |-> None, review_count |-> None, warranty_years |-> None,
     price |-> price]

\* main.py:376-381: the placeholder policy; the label and the days of the
\* shipping estimate are the fields shipping_estimate and shipping_days
WithPlaceholders(snap) ==
    [keys |-> { "price", "stock_status", "shipping_estimate", "shipping_days",
                "shipping_cost", "discount", "review_count", "warranty_years" },
     price |-> snap.price,
     stock_status |-> IF _needs_placeholder(snap.stock_status)
                      THEN Some(PLACEHOLDER_MANUAL) ELSE snap.stock_status,
     shipping_estimate |->
         IF _needs_placeholder(FormOf(snap.shipping)) /\ IsNone(snap.shipping)
         THEN Some([form |-> PLACEHOLDER_PENDING, a |-> 0, b |-> 0])
         ELSE IF IsNone(snap.shipping) THEN None
         ELSE Some([form |-> Val(snap.shipping).form, a |-> Val(snap.shipping).a,
                    b |-> Val(snap.shipping).b]),
     shipping_days |-> IF IsNone(snap.shipping) THEN None
                       ELSE Some(Val(snap.shipping).halves),
     shipping_cost |-> snap.shipping_cost,
     discount |-> IF _needs_placeholder(FormOf(snap.discount))
                  THEN Some([form |-> PLACEHOLDER_PENDING, amount |-> None,
                             code |-> None])
                  ELSE snap.discount,
     review_count |-> snap.review_count,
     warranty_years |-> snap.warranty_years]

\* main.py:334-383: url is the argument, price the current_price of the
\* cascade when it succeeded (main.py:353-356), data what the proxy returned
\* for the URL (main.py:358), JNull when that request failed
get_product_snapshot(url, price, data) ==
    IF _normalize_url(url) = NoUrl THEN Returns(Some(EmptySnapshot))
    ELSE IF ~Truthy(data) THEN Returns(Some(WithPlaceholders(FreshSnapshot(price))))
    ELSE LET page == ReadPage(data, price)
         IN IF page.raises THEN Raising
            ELSE Returns(Some(WithPlaceholders(Val(page.value))))

\* the URLs get_product_snapshot is called with: blank, and a product's
SnapshotUrls ==
    { NoUrl, [scheme |-> "https://", host |-> << "shop.com" >>, path |-> << "widget" >>] }

\* main.py:334-383: get_product_snapshot(ex_url) returns or raises
GetProductSnapshot ==
    /\ ex_fn = "none"
    /\ ex_fn' = "get_product_snapshot(url)"
    /\ ex_out' = get_product_snapshot(ex_url, ex_price, ex_data)
    /\ UNCHANGED << ex_data, ex_price, ex_url, ex_html >>

\* first.py:21-41: the price of a structured-data block: its "price", its
\* "lowPrice", the price of its "offers", the price of the first of its
\* values that has one (the blocks of the model hold one price at most)
RECURSIVE _extract_price_from_ld(_)
_extract_price_from_ld(data) ==
    IF data.t # "dict" THEN None
    ELSE IF "price" \in DOMAIN data.items THEN Some(data.items["price"].n)
    ELSE IF "lowPrice" \in DOMAIN data.items THEN Some(data.items["lowPrice"].n)
    ELSE LET with == { key \in DOMAIN data.items :
                         ~IsNone(_extract_price_from_ld(data.items[key])) }
         IN IF with = {} THEN None
            ELSE _extract_price_from_ld(data.items[CHOOSE key \in with : TRUE])

\* the structured sources of a page: the data of its ld+json script, the
\* content of its price meta tag, the content of its itemprop="price" element
Html(ld, meta, itemprop) == [ld |-> ld, meta |-> meta, itemprop |-> itemprop]

\* first.py:43-70: the structured-data block, then the meta tags, then the
\* micro-data attribute; None when none of them holds a price
_extract_price_from_html(html) ==
    LET ld == IF IsNone(html.ld) THEN None ELSE _extract_price_from_ld(Val(html.ld))
    IN IF ~IsNone(ld) THEN ld
       ELSE IF ~IsNone(html.meta) THEN html.meta
       ELSE html.itemprop

NoStructured == Html(None, None, None)

\* pages without a structured price, with one in each source, with two that
\* differ, with a structured-data block that holds no price
HtmlPages ==
    { NoStructured,
      Html(Some(JDict([offers |-> JDict([price |-> JNum(2999)])])), Some(3499), None),
      Html(Some(JDict([name |-> Title])), None, Some(2999)),
      Html(None, Some(2999), Some(3499)) }

\* first.py:101: the structured sources of the page are read
ExtractPriceFromHtml ==
    /\ ex_fn = "none"
    /\ ex_fn' = "_extract_price_from_html"
    /\ ex_out' = Returns(_extract_price_from_html(ex_html))
    /\ UNCHANGED << ex_data, ex_price, ex_url, ex_html >>

\* main.py:284, 317: the price get_price takes from the proxy's record of the
\* page
ExtractPriceFromJina ==
    /\ ex_fn = "none"
    /\ Truthy(ex_data)
    /\ ex_fn' = "_extract_price_from_jina"
    /\ ex_out' = IF _extract_price_from_jina(ex_data).raises THEN Raising
                 ELSE Returns(_extract_price_from_jina(ex_data).price)
    /\ UNCHANGED << ex_data, ex_price, ex_url, ex_html >>

ExtractIdle ==
    /\ ex_url = NoUrl
    /\ ex_html = NoStructured
    /\ ex_data = JNull
    /\ ex_price = None
    /\ ex_fn = "none"
    /\ ex_out = Returns(None)


----------------------------------------------------------------------------
(* supabase_db.py:57-105: _request                                           *)

RETRYABLE_STATUS == {408, 429, 500, 502, 503, 504}

\* supabase_db.py:75: range(1, 6)
MaxAttempts == 5

\* what httpx.request can do: return a response (a status, and a body that
\* is JSON, empty or neither) or raise
Response(status, body) == [kind |-> "response", status |-> status, body |-> body, exc |-> "none"]
Exc(name) == [kind |-> "exception", status |-> 0, body |-> "none", exc |-> name]

Outcomes ==
    { Response(200, "json"), Response(200, "empty"), Response(204, "empty"),
      Response(200, "garbage"),
      Response(429, "json"), Response(503, "empty"),
      Response(401, "json"), Response(404, "json"), Response(501, "empty") }
    \cup { Exc(e) : e \in { "ReadTimeout", "ConnectTimeout", "RemoteProtocolError",
                            "WriteTimeout", "ConnectError" } }

\* supabase_db.py:101: the exceptions the loop catches
CaughtExceptions == { "ReadTimeout", "ConnectTimeout", "RemoteProtocolError" }

\* mutant: every failure is retried
Retryable_AnyFailure(o) ==
    \/ o.kind = "exception"
    \/ o.kind = "response" /\ (o.status >= 400 \/ o.body = "garbage")

\* supabase_db.py:88, 101: the attempt is followed by a sleep and "continue"
Retryable(o) ==
    \/ o.kind = "response" /\ o.status \in RETRYABLE_STATUS
    \/ o.kind = "exception" /\ o.exc \in CaughtExceptions

\* supabase_db.py:93-99: the attempt returns to the caller
RequestSucceeds(o) ==
    /\ o.kind = "response"
    /\ o.status \notin RETRYABLE_STATUS
    /\ o.status < 400
    /\ o.body # "garbage"

RECURSIVE Pow2(_)
Pow2(n) == IF n = 0 THEN 1 ELSE 2 * Pow2(n - 1)

Min(a, b) == IF a <= b THEN a ELSE b

\* mutant: the delay grows by one second with each attempt
Backoff_Linear(n) == Min(n, 16)

\* supabase_db.py:90, 103: min(2 ** (attempt - 1), 16)
Backoff(n) == Min(Pow2(n - 1), 16)

\* the value returned (supabase_db.py:96-99): None, or the decoded body
Returned(o) ==
    IF o.status = 204 \/ o.body = "empty" THEN [kind |-> "returned", value |-> "None"]
    ELSE [kind |-> "returned", value |-> "json"]

\* the exception that leaves _request
Propagated(name) == [kind |-> "raised", value |-> name]

\* supabase_db.py:60-74: _request is called
Request ==
    /\ rq_pc = "idle"
    /\ rq_pc' = "running"
    /\ attempt' = 0
    /\ last_exc' = None
    /\ UNCHANGED << rq_result, slept, rq_log >>

\* supabase_db.py:105: the loop is over
Exhausted(exc) ==
    Propagated(IF IsNone(exc) THEN "RuntimeError" ELSE Val(exc))

\* supabase_db.py:76-104: one attempt, httpx.request doing o
Attempt(o) ==
    /\ rq_pc = "running"
    /\ attempt < MaxAttempts
    /\ attempt' = attempt + 1
    /\ rq_log' = Append(rq_log, o)
    /\ IF Retryable(o)
       THEN /\ last_exc' = IF o.kind = "exception" THEN Some(o.exc) ELSE last_exc
            /\ slept' = Append(slept, Backoff(attempt'))
            /\ IF attempt' = MaxAttempts
               THEN rq_pc' = "raised" /\ rq_result' = Exhausted(last_exc')
               ELSE rq_pc' = "running" /\ UNCHANGED rq_result
       ELSE /\ UNCHANGED << last_exc, slept >>
            /\ IF RequestSucceeds(o)
               THEN rq_pc' = "returned" /\ rq_result' = Returned(o)
               ELSE /\ rq_pc' = "raised"
                    /\ rq_result' = Propagated(
                          IF o.kind = "exception" THEN o.exc
                          ELSE IF o.status >= 400 THEN "HTTPStatusError"
                          ELSE "JSONDecodeError")

\* supabase_db.py:77-99: httpx.request returns a response
AttemptResponds == \E o \in { x \in Outcomes : x.kind = "response" } : Attempt(o)

\* supabase_db.py:77, 101-104: httpx.request raises
AttemptRaises == \E o \in { x \in Outcomes : x.kind = "exception" } : Attempt(o)

RequestIdle ==
    /\ rq_pc = "idle"
    /\ attempt = 0
    /\ last_exc = None
    /\ rq_result = [kind |-> "none", value |-> "none"]
    /\ slept = << >>
    /\ rq_log = << >>

----------------------------------------------------------------------------
(* worker.py:21-77: the onboarding state and its file                        *)
(* A string is a sequence of pieces, " " being white space.  A mapping       *)
(* (dict) is a set of <<key, value>> pairs with one pair for a key.          *)

Blank == " "

\* str.strip()
RECURSIVE LStrip(_)
LStrip(s) == IF s # << >> /\ Head(s) = Blank THEN LStrip(Tail(s)) ELSE s

RECURSIVE RStrip(_)
RStrip(s) ==
    IF s # << >> /\ s[Len(s)] = Blank THEN RStrip(SubSeq(s, 1, Len(s) - 1)) ELSE s

Strip(s) == RStrip(LStrip(s))

\* str(product.id)
StrOf(id) == << ToString(id) >>

\* dict.keys(), dict.get(key), dict[key] = value, dict.pop(key, None)
Keys(d) == { kv[1] : kv \in d }
DictGet(d, key) == IF key \in Keys(d) THEN Some((CHOOSE kv \in d : kv[1] = key)[2]) ELSE None
DictSet(d, key, value) == { kv \in d : kv[1] # key } \cup { << key, value >> }
DictPop(d, key) == { kv \in d : kv[1] # key }

\* what the state file can hold: nothing (no file); text that is not JSON
\* (also: part of a JSON text); JSON that is not an object; an object without
\* STATE_KEY; an object with something other than an object under it; an
\* object with rows under it
FileMissing == [kind |-> "missing", rows |-> {}]
FileGarbage == [kind |-> "garbage", rows |-> {}]
FileNotObject == [kind |-> "json list", rows |-> {}]
FileNoKey == [kind |-> "json object without key", rows |-> {}]
FileRowsNotObject == [kind |-> "json object, rows a list", rows |-> {}]
FileRows(rows) == [kind |-> "json object", rows |-> rows]

\* mutant: the mapping is written without STATE_KEY around it
Dump_Bare(state) ==
    FileNoKey

\* worker.py:57, 61: json.dump({STATE_KEY: state}), the text written
Dump(state) == FileRows({ << kv[1], JStr(kv[2]) >> : kv \in state })

\* worker.py:43-48: the rows that are kept, stripped
Normalized(rows) ==
    { << Strip(kv[1]), Strip(kv[2].s) >> :
        kv \in { r \in rows : /\ Strip(r[1]) # << >>
                              /\ r[2].t = "str"
                              /\ Strip(r[2].s) # << >> } }

\* worker.py:25-49: the mapping loaded from a file with this content; no
\* content makes it raise
_load_initial_alert_state(content) ==
    IF content.kind = "json object" THEN Normalized(content.rows) ELSE {}

\* mutant: a product that is in the state is never notified again
_initial_alert_reason_NewOnly(prod, state) ==
    LET channel == Strip(prod.slack_channel_id)
        previous_channel == DictGet(state, StrOf(prod.id))
    IN IF channel = << >> THEN None
       ELSE IF IsNone(previous_channel) THEN Some("new_product")
       ELSE None

\* worker.py:67-77
_initial_alert_reason(prod, state) ==
    LET channel == Strip(prod.slack_channel_id)
        previous_channel == DictGet(state, StrOf(prod.id))
    IN IF channel = << >> THEN None
       ELSE IF IsNone(previous_channel) THEN Some("new_product")
       ELSE IF Val(previous_channel) # channel THEN Some("channel_changed")
       ELSE None

----------------------------------------------------------------------------
(* worker.py:80-118, 163-170: check_all_prices with its onboarding part.     *)
(* The loop over the competitors of a product (worker.py:120-161) is one     *)
(* step here, which ends or raises; its steps are those of Spec.             *)

EntityIds == {1, 2}

\* product.slack_channel_id: none, two channels, one with a blank after it
ChannelIds == { << >>, << "C1" >>, << "C2" >>, << "C1", Blank >> }

ClientProduct(id, channel) == [id |-> id, slack_channel_id |-> channel]

\* supabase_db.py:147-155: the products, in the order of their ids
ProductLists ==
    { << >> }
    \cup { << ClientProduct(id, c) >> : id \in EntityIds, c \in ChannelIds }
    \cup { << ClientProduct(1, c), ClientProduct(2, d) >> : c \in ChannelIds, d \in ChannelIds }

\* the state files a first run can find: none, damaged ones, and files with
\* rows: of an entity that is no longer listed, with a value that is not a
\* string, with blanks around key and value, with a blank value
FirstFiles ==
    { FileMissing, FileGarbage, FileNotObject, FileNoKey, FileRowsNotObject,
      FileRows({ << StrOf(3), JStr(<< "C1" >>) >> }),
      FileRows({ << StrOf(1), JStr(<< "C1" >>) >>, << StrOf(3), JStr(<< "C2" >>) >> }),
      FileRows({ << StrOf(1), JStr(<< "C2" >>) >>, << StrOf(2), JNum(5) >> }),
      FileRows({ << << Blank, "2" >>, JStr(<< "C1", Blank >>) >>,
                 << StrOf(1), JStr(<< Blank >>) >> }) }

OnboardingOn(fn) == fn # "None"

NoneNotified == [id \in EntityIds |-> "none"]

NoneDelivered == [id \in EntityIds |-> << >>]

\* a product that is listed again with the channel it had keeps what was
\* delivered to it; one that is not listed, or has another channel, starts anew
StillListed(products_, id) ==
    \E i \in 1..Len(products_) :
        /\ products_[i].id = id
        /\ delivered[id] # << >>
        /\ products_[i].slack_channel_id = delivered[id][1]

\* the last two deliveries are kept
Deliver(id, channel) ==
    IF Len(delivered[id]) < 2 THEN Append(delivered[id], channel) ELSE delivered[id]

\* worker.py:81-84: the call begins
Begins(who, fn) ==
    /\ ob_pc \in {"idle", "done", "crashed"}
    /\ caller' = who
    /\ initial_alert_fn' = fn
    /\ seen_product_ids' = {}
    /\ state_changed' = FALSE
    /\ ob_i' = 1
    /\ file_at_start' = state_file
    /\ replaces' = 0
    /\ notified' = NoneNotified
    /\ UNCHANGED << state_file, temp_file, saved >>

\* worker.py:81-82: list_client_products returns and the state is loaded
Lists(who, fn) ==
    /\ Begins(who, fn)
    /\ \E products_ \in ProductLists :
         /\ listed' = products_
         /\ ob_pc' = IF products_ = << >> THEN "finish" ELSE "client"
         /\ delivered' = [id \in EntityIds |->
                IF StillListed(products_, id) THEN delivered[id] ELSE << >>]
    /\ loaded' = IF OnboardingOn(fn) THEN _load_initial_alert_state(state_file) ELSE {}
    /\ initial_alert_state' = loaded'
    /\ reads' = IF OnboardingOn(fn) THEN 1 ELSE 0

\* worker.py:81: list_client_products raises
ListRaises(who, fn) ==
    /\ Begins(who, fn)
    /\ listed' = << >>
    /\ ob_pc' = "crashed"
    /\ loaded' = {}
    /\ initial_alert_state' = {}
    /\ reads' = 0
    /\ UNCHANGED delivered

\* guardian.py:20-22: run_once calls check_all_prices(scraper, send_price_alert)
RunOnce == Lists("run_once", "None")
RunOnceListRaises == ListRaises("run_once", "None")

\* a caller that passes initial_alert_fn
CheckWithOnboarding == Lists("other", "send_initial_product_alert")
CheckWithOnboardingListRaises == ListRaises("other", "send_initial_product_alert")

product == listed[ob_i]

obRunVars == << caller, initial_alert_fn, listed, file_at_start, loaded, reads >>
fileVars == << state_file, temp_file, replaces, saved >>

\* worker.py:87-97: the product is seen, its price fetched and stored
ObClientPrice ==
    /\ ob_pc = "client"
    /\ seen_product_ids' = seen_product_ids \cup { StrOf(product.id) }
    /\ ob_pc' = "onboard"
    /\ UNCHANGED << delivered, obRunVars, fileVars, ob_i, initial_alert_state, state_changed,
                    notified >>

\* worker.py:89, 97: get_price or update_client_product raises
ObClientPriceRaises ==
    /\ ob_pc = "client"
    /\ seen_product_ids' = seen_product_ids \cup { StrOf(product.id) }
    /\ ob_pc' = "crashed"
    /\ UNCHANGED << delivered, obRunVars, fileVars, ob_i, initial_alert_state, state_changed,
                    notified >>

\* worker.py:99
reason ==
    IF OnboardingOn(initial_alert_fn)
    THEN _initial_alert_reason(product, initial_alert_state) ELSE None

\* worker.py:99-100: there is no reason for a notification
NoInitialAlert ==
    /\ ob_pc = "onboard"
    /\ IsNone(reason)
    /\ ob_pc' = "competitors"
    /\ UNCHANGED << delivered, obRunVars, fileVars, ob_i, initial_alert_state, state_changed,
                    seen_product_ids, notified >>

\* worker.py:100-109, 116-118: initial_alert_fn returns
InitialAlertFn ==
    /\ ob_pc = "onboard"
    /\ ~IsNone(reason)
    /\ notified' = [notified EXCEPT ![product.id] = "sent"]
    /\ initial_alert_state' = DictSet(initial_alert_state, StrOf(product.id),
                                      Strip(product.slack_channel_id))
    /\ state_changed' = TRUE
    /\ delivered' = [delivered EXCEPT
                        ![product.id] = Deliver(product.id, product.slack_channel_id)]
    /\ ob_pc' = "competitors"
    /\ UNCHANGED << obRunVars, fileVars, ob_i, seen_product_ids >>

\* worker.py:100-115: initial_alert_fn raises
InitialAlertFnRaises ==
    /\ ob_pc = "onboard"
    /\ ~IsNone(reason)
    /\ notified' = [notified EXCEPT ![product.id] = "raised"]
    /\ ob_pc' = "competitors"
    /\ UNCHANGED << delivered, obRunVars, fileVars, ob_i, initial_alert_state, state_changed,
                    seen_product_ids >>

\* worker.py:120-161, 86: the competitors are done, the next product is due
ObCompetitors ==
    /\ ob_pc = "competitors"
    /\ ob_i' = ob_i + 1
    /\ ob_pc' = IF ob_i < Len(listed) THEN "client" ELSE "finish"
    /\ UNCHANGED << delivered, obRunVars, fileVars, initial_alert_state, state_changed,
                    seen_product_ids, notified >>

\* worker.py:121, 149, 161: get_price or update_competitor raises
ObCompetitorsRaise ==
    /\ ob_pc = "competitors"
    /\ ob_pc' = "crashed"
    /\ UNCHANGED << delivered, obRunVars, fileVars, ob_i, initial_alert_state, state_changed,
                    seen_product_ids, notified >>

\* mutant: no key is stale
StaleKeys_None(state, seen) == {}

\* worker.py:164
StaleKeys(state, seen) == { key \in Keys(state) : key \notin seen }

\* worker.py:163-169: the stale keys are dropped; the state is saved if it
\* changed
Finish ==
    /\ ob_pc = "finish"
    /\ LET stale_keys == StaleKeys(initial_alert_state, seen_product_ids)
       IN IF ~OnboardingOn(initial_alert_fn)
          THEN /\ ob_pc' = "done"
               /\ UNCHANGED << initial_alert_state, state_changed >>
          ELSE /\ initial_alert_state' =
                      { kv \in initial_alert_state : kv[1] \notin stale_keys }
               /\ state_changed' = (state_changed \/ stale_keys # {})
               /\ ob_pc' = IF state_changed' THEN "save" ELSE "done"
    /\ UNCHANGED << delivered, obRunVars, fileVars, ob_i, seen_product_ids, notified >>

saveFrame == << delivered, obRunVars, ob_i, initial_alert_state, state_changed,
                seen_product_ids, notified >>

\* mutant: the state file itself is opened for writing
SaveOpens_InPlace ==
    /\ ob_pc = "save"
    /\ state_file' = FileGarbage
    /\ ob_pc' = "save: dump"
    /\ UNCHANGED << temp_file, replaces, saved, saveFrame >>

\* worker.py:52-60: _save_initial_alert_state opens the temp file, which is
\* empty from then on
SaveOpens ==
    /\ ob_pc = "save"
    /\ temp_file' = FileGarbage
    /\ ob_pc' = "save: dump"
    /\ UNCHANGED << state_file, replaces, saved, saveFrame >>

\* worker.py:55: os.makedirs raises, outside the try of worker.py:59
SaveMakedirsRaises ==
    /\ ob_pc = "save"
    /\ ob_pc' = "crashed"
    /\ UNCHANGED << fileVars, saveFrame >>

\* worker.py:61: json.dump writes the text and the file is closed
SaveDumps ==
    /\ ob_pc = "save: dump"
    /\ temp_file' = Dump(initial_alert_state)
    /\ ob_pc' = "save: replace"
    /\ UNCHANGED << state_file, replaces, saved, saveFrame >>

\* worker.py:62: os.replace puts the temp file in the place of the state file
SaveReplaces ==
    /\ ob_pc = "save: replace"
    /\ state_file' = temp_file
    /\ temp_file' = FileMissing
    /\ replaces' = replaces + 1
    /\ saved' = Some(initial_alert_state)
    /\ ob_pc' = "done"
    /\ UNCHANGED saveFrame

\* worker.py:60-64: open, json.dump or os.replace raises; the exception is
\* logged and the run ends
SaveFails ==
    /\ ob_pc \in {"save", "save: dump", "save: replace"}
    /\ ob_pc' = "done"
    /\ UNCHANGED << fileVars, saveFrame >>

\* the process is stopped (a signal) while the state is saved
Killed ==
    /\ ob_pc \in {"save", "save: dump", "save: replace"}
    /\ ob_pc' = "crashed"
    /\ UNCHANGED << fileVars, saveFrame >>

OnboardIdle ==
    /\ state_file = FileMissing
    /\ temp_file = FileMissing
    /\ caller = "none"
    /\ initial_alert_fn = "None"
    /\ ob_pc = "idle"
    /\ listed = << >>
    /\ ob_i = 1
    /\ initial_alert_state = {}
    /\ state_changed = FALSE
    /\ seen_product_ids = {}
    /\ file_at_start = FileMissing
    /\ loaded = {}
    /\ reads = 0
    /\ replaces = 0
    /\ notified = NoneNotified
    /\ saved = None
    /\ delivered = NoneDelivered

----------------------------------------------------------------------------
(* guardian.py:11-34: run_forever                                            *)

\* the runs whose end is remembered
HistoryLen == 3

\* CHECK_INTERVAL_HOURS: not set, or a text; float() gives a finite number
\* of hours, counted in tenths, or raises ValueError
Unset == [set |-> FALSE, parses |-> TRUE, tenths |-> 40]
Hours(tenths) == [set |-> TRUE, parses |-> TRUE, tenths |-> tenths]
NotANumber == [set |-> TRUE, parses |-> FALSE, tenths |-> 0]

Environments == { Unset, Hours(40), Hours(240), Hours(0), Hours(0 - 10), NotANumber }

\* guardian.py:11-17, in seconds
_interval_seconds(env) ==
    LET value == IF env.set THEN env ELSE Hours(40)
        hours == IF value.parses THEN value.tenths ELSE 40
    IN (IF hours >= 1 THEN hours ELSE 1) * 360

\* how a run of check_all_prices can end: it returns, or one of its calls
\* raises (worker.py:81, 89, 97, 121, 149, 161)
RunRaises == { "list_client_products", "get_price", "update_client_product",
               "update_competitor" }

Remember(o) ==
    IF Len(outcomes) < HistoryLen THEN Append(outcomes, o)
    ELSE Append(Tail(outcomes), o)

\* guardian.py:25-26: run_forever is called
RunForever ==
    /\ lp_pc = "idle"
    /\ \E env \in Environments : interval' = _interval_seconds(env)
    /\ lp_pc' = "loop"
    /\ UNCHANGED << sleep_for, printed, outcomes >>

\* guardian.py:27-29: run_once is called
LoopRunOnce ==
    /\ lp_pc = "loop"
    /\ lp_pc' = "run_once"
    /\ UNCHANGED << interval, sleep_for, printed, outcomes >>

\* guardian.py:29, 34: run_once returns; the loop sleeps for the interval
LoopRunOnceReturns ==
    /\ lp_pc = "run_once"
    /\ outcomes' = Remember("returned")
    /\ sleep_for' = interval
    /\ lp_pc' = "sleep"
    /\ UNCHANGED << interval, printed >>

\* mutant: the exception of run_once is not caught
LoopRunOnceRaises_Propagates ==
    /\ lp_pc = "run_once"
    /\ \E cause \in RunRaises : outcomes' = Remember(cause)
    /\ lp_pc' = "stopped"
    /\ UNCHANGED << interval, sleep_for, printed >>

\* guardian.py:30-33: run_once raises; the trace is printed and the loop
\* sleeps for 10 seconds
LoopRunOnceRaises ==
    /\ lp_pc = "run_once"
    /\ \E cause \in RunRaises :
         /\ outcomes' = Remember(cause)
         /\ printed' = << "run_once crashed:", cause >>
    /\ sleep_for' = 10
    /\ lp_pc' = "sleep"
    /\ UNCHANGED interval

\* guardian.py:32-34, 27: time.sleep returns
SleepReturns ==
    /\ lp_pc = "sleep"
    /\ lp_pc' = "loop"
    /\ sleep_for' = 0
    /\ UNCHANGED << interval, printed, outcomes >>

LoopIdle ==
    /\ lp_pc = "idle"
    /\ interval = 0
    /\ sleep_for = 0
    /\ printed = << >>
    /\ outcomes = << >>

----------------------------------------------------------------------------
(* api.py, slack_handlers.py, slack_ui.py: the Slack endpoints and the      *)
(* handlers they call                                                      *)

Endpoints == { "/slack/prices", "/slack/actions", "/slack/events" }

\* os.getenv("SLACK_SIGNING_SECRET"): not set, empty, set
Secrets == { "unset", "empty", "set" }

\* the X-Slack-Request-Timestamp header: missing, empty, not a number, a
\* number more than five minutes from now, one within five minutes, a number
\* too large for a float
Timestamps == { "missing", "empty", "text", "stale", "fresh", "huge" }

\* the X-Slack-Signature header: missing, empty, the digest of this request
\* under the secret, another ASCII text, a text with a character beyond ASCII
Signatures == { "missing", "empty", "valid", "invalid", "non-ascii" }

\* the "payload" field of a form body: missing, empty, not JSON, JSON that
\* is not an object, an object without actions, with another action, with
\* the selection of a product (without its value, with it, with it and a
\* response_url)
Payloads ==
    { "missing", "empty", "invalid", "not object", "no actions", "other action",
      "select without value", "select", "select with response_url" }

\* a form body with these fields: no JSON text
FormBody(team, payload) ==
    [utf8 |-> TRUE, json |-> "invalid", team_id |-> team, payload |-> payload]

\* a body that is a JSON text: a url_verification object, another object, a
\* value that is not an object (null, a list, a number); as a form it has
\* neither field
JsonBody(kind) ==
    [utf8 |-> TRUE, json |-> kind, team_id |-> None, payload |-> "missing"]

\* bytes that are not UTF-8
BadBytes == [utf8 |-> FALSE, json |-> "invalid", team_id |-> None, payload |-> "missing"]

Bodies ==
    { FormBody(team, payload) : team \in { None, Some("T1") }, payload \in Payloads }
    \cup { JsonBody(kind) : kind \in { "url_verification", "object", "not object" } }
    \cup { BadBytes }

Requests ==
    [endpoint : Endpoints, secret : Secrets, timestamp : Timestamps,
     signature : Signatures, body : Bodies]

NoRequest ==
    [endpoint |-> "/slack/events", secret |-> "unset", timestamp |-> "missing",
     signature |-> "missing", body |-> BadBytes]

\* the answers: status, text (of a plain answer, or of the message), and
\* the options of the select of a message
Reply(status, text) == [status |-> status, text |-> text, options |-> << >>]
NoResponse == Reply(0, "")

\* an exception that leaves the endpoint: the framework answers
InternalServerError == Reply(500, "Internal Server Error")

\* api.py:22-30: None, the answer with the challenge, or an exception
\* (api.py:27: payload.get of a value that is not a dict)
_handle_slack_url_verification(body) ==
    CASE body.json = "invalid" -> [raises |-> FALSE, value |-> None]
      [] body.json = "not object" -> [raises |-> TRUE, value |-> None]
      [] body.json = "url_verification" ->
            [raises |-> FALSE, value |-> Some(Reply(200, "challenge"))]
      [] OTHER -> [raises |-> FALSE, value |-> None]

\* api.py:33-49: "True", "False", or an exception (api.py:42: OverflowError
\* of the difference; api.py:46: UnicodeDecodeError; api.py:49: TypeError of
\* compare_digest)
_verify_slack_request(req) ==
    CASE req.secret \in { "unset", "empty" } -> "True"
      [] req.timestamp \in { "missing", "empty" } -> "False"
      [] req.signature \in { "missing", "empty" } -> "False"
      [] req.timestamp = "text" -> "False"
      [] req.timestamp = "huge" -> "raises"
      [] req.timestamp = "stale" -> "False"
      [] ~req.body.utf8 -> "raises"
      [] req.signature = "non-ascii" -> "raises"
      [] req.signature = "valid" -> "True"
      [] OTHER -> "False"

\* the rows of the store: a product with its number of competitors
StoredProduct(id, n) == [id |-> id, competitors |-> n]

\* supabase_db.py:147-155: what list_client_products returns
StoredLists ==
    { << >>, << StoredProduct(1, 0) >>, << StoredProduct(1, 2), StoredProduct(2, 0) >> }

\* slack_ui.py:117-159
build_product_select(rows) ==
    IF rows = << >>
    THEN Reply(200, "No products configured yet.")
    ELSE [status |-> 200, text |-> "Which product do you want to audit?",
          options |-> [i \in 1..Len(rows) |-> rows[i].id]]

\* slack_ui.py:162-201: the function has one parameter, so that a call with
\* another number of arguments raises TypeError
build_competitors_view(args) ==
    IF Len(args) # 1
    THEN [raises |-> TRUE, value |-> NoResponse]
    ELSE [raises |-> FALSE,
          value |-> Reply(200, IF args[1].competitors = 0
                                  THEN "No competitors configured."
                                  ELSE "Competitors")]

\* slack_handlers.py:25-29
ProductNotFound == Reply(200, "Product not found.")

\* api.py:62-65, 76-79, 110-113: a request arrives and its body is read
Arrives ==
    /\ fr_pc = "idle"
    /\ fr_req' \in Requests
    /\ fr_pc' = "url_verification"
    /\ UNCHANGED << fr_resp, fr_calls, fr_product, fr_price, fr_message >>

frontFrame == << fr_req, fr_product, fr_price, fr_message >>

Answer(response) == fr_pc' = "done" /\ fr_resp' = response

\* api.py:65-67, 79-81, 113-115
UrlVerification ==
    /\ fr_pc = "url_verification"
    /\ LET verification == _handle_slack_url_verification(fr_req.body)
       IN IF verification.raises THEN Answer(InternalServerError)
          ELSE IF ~IsNone(verification.value) THEN Answer(Val(verification.value))
          ELSE fr_pc' = "verify" /\ UNCHANGED fr_resp
    /\ UNCHANGED << fr_calls, frontFrame >>

\* api.py:68-69, 82-83, 116-117
VerifySlackRequest ==
    /\ fr_pc = "verify"
    /\ LET verified == _verify_slack_request(fr_req)
       IN CASE verified = "raises" -> Answer(InternalServerError)
            [] verified = "False" -> Answer(Reply(401, "Invalid Slack signature"))
            [] OTHER -> fr_pc' = fr_req.endpoint /\ UNCHANGED fr_resp
    /\ UNCHANGED << fr_calls, frontFrame >>

\* api.py:118
SlackEvents ==
    /\ fr_pc = "/slack/events"
    /\ Answer(Reply(200, "OK"))
    /\ UNCHANGED << fr_calls, frontFrame >>

\* api.py:70-72: the form is parsed (bytes that are not UTF-8 make
\* _parse_form_body raise) and handle_prices_command is called
SlackPrices ==
    /\ fr_pc = "/slack/prices"
    /\ IF ~fr_req.body.utf8
       THEN Answer(InternalServerError) /\ UNCHANGED fr_calls
       ELSE /\ fr_pc' = "handle_prices_command"
            /\ fr_calls' = Append(fr_calls, "handle_prices_command")
            /\ UNCHANGED fr_resp
    /\ UNCHANGED frontFrame

\* slack_handlers.py:8-10, api.py:73
HandlePricesCommand ==
    /\ fr_pc = "handle_prices_command"
    /\ fr_calls' = Append(fr_calls, "list_client_products")
    /\ \E rows \in StoredLists :
         /\ fr_message' = Some(build_product_select(rows))
         /\ Answer(build_product_select(rows))
    /\ UNCHANGED << fr_req, fr_product, fr_price >>

\* slack_handlers.py:9 with supabase_db.py:92, 105: the read raises
HandlePricesCommandRaises ==
    /\ fr_pc = "handle_prices_command"
    /\ fr_calls' = Append(fr_calls, "list_client_products raises")
    /\ Answer(InternalServerError)
    /\ UNCHANGED frontFrame

\* api.py:84-100, 107
SlackActions ==
    /\ fr_pc = "/slack/actions"
    /\ LET payload == fr_req.body.payload
       IN CASE ~fr_req.body.utf8 ->
                 Answer(InternalServerError) /\ UNCHANGED fr_calls
            [] payload \in { "missing", "empty" } ->
                 Answer(Reply(400, "Missing payload")) /\ UNCHANGED fr_calls
            [] payload = "invalid" ->
                 Answer(Reply(400, "Invalid payload")) /\ UNCHANGED fr_calls
            [] payload = "not object" ->
                 Answer(InternalServerError) /\ UNCHANGED fr_calls
            [] payload \in { "no actions", "other action" } ->
                 Answer(Reply(200, "No action")) /\ UNCHANGED fr_calls
            [] payload = "select without value" ->
                 Answer(Reply(400, "Missing product id")) /\ UNCHANGED fr_calls
            [] OTHER ->
                 /\ fr_pc' = "handle_product_selected"
                 /\ fr_calls' = Append(fr_calls, "handle_product_selected")
                 /\ UNCHANGED fr_resp
    /\ UNCHANGED frontFrame

\* slack_handlers.py:23-29: get_client_product returns no product
SelectedNotFound ==
    /\ fr_pc = "handle_product_selected"
    /\ fr_calls' = Append(fr_calls, "get_client_product")
    /\ fr_message' = Some(ProductNotFound)
    /\ fr_pc' = "respond"
    /\ UNCHANGED << fr_req, fr_resp, fr_product, fr_price >>

\* slack_handlers.py:23-24: get_client_product returns the product
SelectedFound ==
    /\ fr_pc = "handle_product_selected"
    /\ fr_calls' = Append(fr_calls, "get_client_product")
    /\ \E row \in { StoredProduct(1, 0), StoredProduct(1, 2) } : fr_product' = Some(row)
    /\ fr_pc' = "get_price"
    /\ UNCHANGED << fr_req, fr_resp, fr_price, fr_message >>

\* slack_handlers.py:23 with supabase_db.py:92, 105: the read raises
SelectedReadRaises ==
    /\ fr_pc = "handle_product_selected"
    /\ fr_calls' = Append(fr_calls, "get_client_product raises")
    /\ Answer(InternalServerError)
    /\ UNCHANGED frontFrame

\* slack_handlers.py:30: _scraper.get_price(product.base_url) returns
SelectedGetPrice ==
    /\ fr_pc = "get_price"
    /\ fr_calls' = Append(fr_calls, "get_price")
    /\ fr_price' \in { None, Some(1999) }
    /\ fr_pc' = "build_competitors_view"
    /\ UNCHANGED << fr_req, fr_resp, fr_product, fr_message >>

\* slack_handlers.py:30 with main.py:260, 264: get_price raises
SelectedGetPriceRaises ==
    /\ fr_pc = "get_price"
    /\ fr_calls' = Append(fr_calls, "get_price raises")
    /\ Answer(InternalServerError)
    /\ UNCHANGED frontFrame

\* slack_handlers.py:31: build_competitors_view(product, client_price)
SelectedBuildsView ==
    /\ fr_pc = "build_competitors_view"
    /\ LET view == build_competitors_view(<< Val(fr_product), fr_price >>)
       IN IF view.raises
          THEN Answer(InternalServerError) /\ UNCHANGED fr_message
          ELSE /\ fr_message' = Some(view.value)
               /\ fr_pc' = "respond"
               /\ UNCHANGED fr_resp
    /\ UNCHANGED << fr_calls, fr_req, fr_product, fr_price >>

\* api.py:101-105: the message is posted to the response_url (an exception
\* of the post is swallowed, api.py:58) and "OK" is answered, or the
\* message itself is the answer
Responds ==
    /\ fr_pc = "respond"
    /\ IF fr_req.body.payload = "select with response_url"
       THEN /\ fr_calls' = Append(fr_calls, "post response_url")
            /\ Answer(Reply(200, "OK"))
       ELSE /\ Answer(Val(fr_message))
            /\ UNCHANGED fr_calls
    /\ UNCHANGED frontFrame

\* the answer was sent: the endpoint keeps nothing of the request
Served ==
    /\ fr_pc = "done"
    /\ fr_pc' = "idle"
    /\ fr_req' = NoRequest
    /\ fr_resp' = NoResponse
    /\ fr_calls' = << >>
    /\ fr_product' = None
    /\ fr_price' = None
    /\ fr_message' = None

FrontIdle ==
    /\ fr_pc = "idle"
    /\ fr_req = NoRequest
    /\ fr_resp = NoResponse
    /\ fr_calls = << >>
    /\ fr_product = None
    /\ fr_price = None
    /\ fr_message = None

----------------------------------------------------------------------------
(* audit.py:581-647: collect_audit_data, which reads and writes the rows    *)
(* that check_all_prices reads and writes                                  *)

\* the product_id of the call: a product of the store, or an id without row
AuditIds == Products \cup { NumProducts + 1 }

\* the locals of check_all_prices and its history
workerLocals == << run, pc, p, k, products, client_price, current_comp_price, now,
                   visited, last_comp, alert_calls, alert_sent, alert_raised,
                   wrote, crash_cause >>

\* audit.py:600: the competitor of the loop
au_comp == << au_product, au_k >>

\* audit.py:600: the competitor after the i-th, or the end of the loop
AuditNext(i) ==
    IF i < CompCount(au_product)
    THEN au_pc' = "comp_snapshot" /\ au_k' = i + 1
    ELSE au_pc' = "summary" /\ au_k' = 0

\* audit.py:582-585: the time is read and get_client_product returns the row
AuditBegins ==
    /\ au_pc = "idle"
    /\ \E id \in AuditIds :
         /\ au_product' = id
         /\ au_pc' = IF id \in Products THEN "client_snapshot" ELSE "crashed"
    /\ au_checked_at' = now
    /\ au_k' = 0
    /\ au_client_price' = None
    /\ au_price' = None
    /\ UNCHANGED workerVars

\* audit.py:583 with supabase_db.py:92, 105: the read raises
AuditBeginsRaises ==
    /\ au_pc = "idle"
    /\ au_product' \in Products
    /\ au_pc' = "crashed"
    /\ au_checked_at' = now
    /\ au_k' = 0
    /\ au_client_price' = None
    /\ au_price' = None
    /\ UNCHANGED workerVars

\* audit.py:587-596: the snapshot of the product's page
AuditClientSnapshot ==
    /\ au_pc = "client_snapshot"
    /\ \E r \in OptPrice :
         /\ au_client_price' = r
         /\ IF IsNone(r) THEN AuditNext(0)
            ELSE au_pc' = "update_client_product" /\ UNCHANGED au_k
    /\ UNCHANGED << au_product, au_checked_at, au_price, workerVars >>

\* audit.py:589, 592, 603: the scraper raises
AuditSnapshotRaises ==
    /\ au_pc \in { "client_snapshot", "comp_snapshot" }
    /\ au_pc' = "crashed"
    /\ UNCHANGED << au_product, au_k, au_checked_at, au_client_price, au_price,
                    workerVars >>

\* audit.py:597
AuditUpdateClientProduct ==
    /\ au_pc = "update_client_product"
    /\ update_client_product(au_product, au_client_price)
    /\ AuditNext(0)
    /\ UNCHANGED << au_product, au_checked_at, au_client_price, au_price,
                    db_last_price, db_last_checked, workerLocals, kept >>

\* audit.py:597, 643 with supabase_db.py:92, 105: the write raises
AuditUpdateRaises ==
    /\ au_pc \in { "update_client_product", "update_competitor" }
    /\ au_pc' = "crashed"
    /\ UNCHANGED << au_product, au_k, au_checked_at, au_client_price, au_price,
                    workerVars >>

\* audit.py:603-606: the snapshot of the competitor's page; without a price
\* the competitor is skipped
AuditCompSnapshot ==
    /\ au_pc = "comp_snapshot"
    /\ \E r \in OptPrice :
         /\ au_price' = r
         /\ IF IsNone(r) THEN AuditNext(au_k)
            ELSE au_pc' = "update_competitor" /\ UNCHANGED au_k
    /\ UNCHANGED << au_product, au_checked_at, au_client_price, workerVars >>

\* audit.py:643: update_competitor(comp.id, last_price=price,
\* last_checked=checked_at)
AuditUpdateCompetitor ==
    /\ au_pc = "update_competitor"
    /\ update_competitor(au_comp, au_price, Some(au_checked_at))
    /\ kept' = [kept EXCEPT ![au_comp] = << >>]
    /\ AuditNext(au_k)
    /\ UNCHANGED << au_product, au_checked_at, au_client_price, au_price,
                    db_client_price, workerLocals >>

\* audit.py:645-647: summary and payload are built and returned
AuditReturns ==
    /\ au_pc = "summary"
    /\ au_pc' = "done"
    /\ UNCHANGED << au_product, au_k, au_checked_at, au_client_price, au_price,
                    workerVars >>

AuditIdle ==
    /\ au_pc = "idle"
    /\ au_product = 1
    /\ au_k = 0
    /\ au_checked_at = 0
    /\ au_client_price = None
    /\ au_price = None

----------------------------------------------------------------------------
(* The specifications: each runs one component, the others are at rest     *)

\* the components other than check_all_prices and the cascade are at rest
ChatIdle == FrontIdle /\ AuditIdle

RestIdle == ExtractIdle /\ RequestIdle /\ OnboardIdle /\ LoopIdle /\ ChatIdle

WorkerIdle == WorkerInit /\ db_last_price = [c \in Comps |-> None]

\* guardian.py:20-22: runs of check_all_prices
Init == WorkerInit /\ CascadeIdle /\ RestIdle

Next ==
    \/ ListClientProducts /\ UNCHANGED << cascadeVars, restVars >>
    \/ ListClientProductsRaises /\ UNCHANGED << cascadeVars, restVars >>
    \/ ClientGetPrice /\ UNCHANGED << cascadeVars, restVars >>
    \/ ClientGetPriceRaises /\ UNCHANGED << cascadeVars, restVars >>
    \/ UpdateClientProduct /\ UNCHANGED << cascadeVars, restVars >>
    \/ UpdateClientProductRaises /\ UNCHANGED << cascadeVars, restVars >>
    \/ CompGetPrice /\ UNCHANGED << cascadeVars, restVars >>
    \/ CompGetPriceRaises /\ UNCHANGED << cascadeVars, restVars >>
    \/ AlertFn /\ UNCHANGED << cascadeVars, restVars >>
    \/ AlertFnRaises /\ UNCHANGED << cascadeVars, restVars >>
    \/ UpdateCompetitor /\ UNCHANGED << cascadeVars, restVars >>
    \/ UpdateCompetitorChecked /\ UNCHANGED << cascadeVars, restVars >>
    \/ UpdateCompetitorRaises /\ UNCHANGED << cascadeVars, restVars >>

Spec == Init /\ [][Next]_vars

\* calls of get_price and of fetch_shopify_js
InitCascade == WorkerIdle /\ CascadeIdle /\ RestIdle

NextCascade ==
    \/ GetPrice /\ UNCHANGED << workerVars, restVars >>
    \/ FetchShopifyJs /\ UNCHANGED << workerVars, restVars >>
    \/ FssRequest /\ UNCHANGED << workerVars, restVars >>
    \/ GetPriceJina /\ UNCHANGED << workerVars, restVars >>

SpecCascade == InitCascade /\ [][NextCascade]_vars

\* calls of the extractors and of the page reading of get_product_snapshot
notExtractVars == << workerVars, cascadeVars, requestVars, onboardVars, loopVars,
                    chatVars >>

InitExtract ==
    /\ WorkerIdle
    /\ CascadeIdle
    /\ RequestIdle
    /\ OnboardIdle
    /\ LoopIdle
    /\ ChatIdle
    /\ ex_data \in PageData \cup { JNull }
    /\ ex_price \in { None, Some(1999) }
    /\ ex_url \in SnapshotUrls
    /\ ex_html \in HtmlPages
    /\ ex_fn = "none"
    /\ ex_out = Returns(None)

NextExtract ==
    \/ ExtractFirstPrice /\ UNCHANGED notExtractVars
    \/ ExtractStockStatus /\ UNCHANGED notExtractVars
    \/ ExtractShippingEstimate /\ UNCHANGED notExtractVars
    \/ ExtractShippingCost /\ UNCHANGED notExtractVars
    \/ ExtractDiscountCode /\ UNCHANGED notExtractVars
    \/ ExtractWarrantyYears /\ UNCHANGED notExtractVars
    \/ ExtractReviewCount /\ UNCHANGED notExtractVars
    \/ SnapshotReadsPage /\ UNCHANGED notExtractVars
    \/ GetProductSnapshot /\ UNCHANGED notExtractVars
    \/ ExtractPriceFromHtml /\ UNCHANGED notExtractVars
    \/ ExtractPriceFromJina /\ UNCHANGED notExtractVars

SpecExtract == InitExtract /\ [][NextExtract]_vars

\* calls of supabase_db._request
notRequestVars == << workerVars, cascadeVars, extractVars, onboardVars, loopVars,
                    chatVars >>

InitRequest == WorkerIdle /\ CascadeIdle /\ ExtractIdle /\ RequestIdle /\ OnboardIdle /\ ChatIdle
               /\ LoopIdle

NextRequest ==
    \/ Request /\ UNCHANGED notRequestVars
    \/ AttemptResponds /\ UNCHANGED notRequestVars
    \/ AttemptRaises /\ UNCHANGED notRequestVars

SpecRequest == InitRequest /\ [][NextRequest]_vars

\* runs of check_all_prices with and without onboarding, one after the other,
\* over one state file
notOnboardVars == << workerVars, cascadeVars, extractVars, requestVars, loopVars,
                    chatVars >>

InitOnboard ==
    /\ WorkerIdle /\ CascadeIdle /\ ExtractIdle /\ RequestIdle /\ LoopIdle /\ ChatIdle
    /\ state_file \in FirstFiles
    /\ temp_file = FileMissing
    /\ caller = "none"
    /\ initial_alert_fn = "None"
    /\ ob_pc = "idle"
    /\ listed = << >>
    /\ ob_i = 1
    /\ initial_alert_state = {}
    /\ state_changed = FALSE
    /\ seen_product_ids = {}
    /\ file_at_start = state_file
    /\ loaded = {}
    /\ reads = 0
    /\ replaces = 0
    /\ notified = NoneNotified
    /\ saved = None
    /\ delivered = NoneDelivered

NextOnboard ==
    \/ RunOnce /\ UNCHANGED notOnboardVars
    \/ RunOnceListRaises /\ UNCHANGED notOnboardVars
    \/ CheckWithOnboarding /\ UNCHANGED notOnboardVars
    \/ CheckWithOnboardingListRaises /\ UNCHANGED notOnboardVars
    \/ ObClientPrice /\ UNCHANGED notOnboardVars
    \/ ObClientPriceRaises /\ UNCHANGED notOnboardVars
    \/ NoInitialAlert /\ UNCHANGED notOnboardVars
    \/ InitialAlertFn /\ UNCHANGED notOnboardVars
    \/ InitialAlertFnRaises /\ UNCHANGED notOnboardVars
    \/ ObCompetitors /\ UNCHANGED notOnboardVars
    \/ ObCompetitorsRaise /\ UNCHANGED notOnboardVars
    \/ Finish /\ UNCHANGED notOnboardVars
    \/ SaveOpens /\ UNCHANGED notOnboardVars
    \/ SaveMakedirsRaises /\ UNCHANGED notOnboardVars
    \/ SaveDumps /\ UNCHANGED notOnboardVars
    \/ SaveReplaces /\ UNCHANGED notOnboardVars
    \/ SaveFails /\ UNCHANGED notOnboardVars
    \/ Killed /\ UNCHANGED notOnboardVars

SpecOnboard == InitOnboard /\ [][NextOnboard]_vars

\* guardian.run_forever; a run that was started ends and a sleep returns
notLoopVars == << workerVars, cascadeVars, extractVars, requestVars, onboardVars,
                 chatVars >>

InitLoop ==
    /\ WorkerIdle /\ CascadeIdle /\ ExtractIdle /\ RequestIdle /\ OnboardIdle
    /\ ChatIdle
    /\ LoopIdle

NextLoop ==
    \/ RunForever /\ UNCHANGED notLoopVars
    \/ LoopRunOnce /\ UNCHANGED notLoopVars
    \/ LoopRunOnceReturns /\ UNCHANGED notLoopVars
    \/ LoopRunOnceRaises /\ UNCHANGED notLoopVars
    \/ SleepReturns /\ UNCHANGED notLoopVars

SpecLoop == InitLoop /\ [][NextLoop]_vars /\ WF_vars(NextLoop)

\* api.py: requests to the Slack endpoints, one at a time
notFrontVars == << workerVars, cascadeVars, extractVars, requestVars, onboardVars,
                  loopVars, auditVars >>

InitFront ==
    /\ WorkerIdle /\ CascadeIdle /\ ExtractIdle /\ RequestIdle /\ OnboardIdle
    /\ LoopIdle /\ AuditIdle
    /\ FrontIdle

NextFront ==
    \/ Arrives /\ UNCHANGED notFrontVars
    \/ UrlVerification /\ UNCHANGED notFrontVars
    \/ VerifySlackRequest /\ UNCHANGED notFrontVars
    \/ SlackEvents /\ UNCHANGED notFrontVars
    \/ SlackPrices /\ UNCHANGED notFrontVars
    \/ HandlePricesCommand /\ UNCHANGED notFrontVars
    \/ HandlePricesCommandRaises /\ UNCHANGED notFrontVars
    \/ SlackActions /\ UNCHANGED notFrontVars
    \/ SelectedNotFound /\ UNCHANGED notFrontVars
    \/ SelectedFound /\ UNCHANGED notFrontVars
    \/ SelectedReadRaises /\ UNCHANGED notFrontVars
    \/ SelectedGetPrice /\ UNCHANGED notFrontVars
    \/ SelectedGetPriceRaises /\ UNCHANGED notFrontVars
    \/ SelectedBuildsView /\ UNCHANGED notFrontVars
    \/ Responds /\ UNCHANGED notFrontVars
    \/ Served /\ UNCHANGED notFrontVars

SpecFront == InitFront /\ [][NextFront]_vars

\* audit.py:581-647 and worker.py:80-170: an audit and a run of
\* check_all_prices over the same rows, which hold a price at first, in any
\* interleaving
notAuditVars == << cascadeVars, extractVars, requestVars, onboardVars, loopVars,
                  frontVars >>

InitAudit ==
    /\ WorkerInit /\ db_last_price = [c \in Comps |-> Some(9999)]
    /\ CascadeIdle /\ ExtractIdle /\ RequestIdle /\ OnboardIdle
    /\ LoopIdle /\ FrontIdle
    /\ AuditIdle

NextAudit ==
    \/ Next /\ run' = 1
    \/ AuditBegins /\ UNCHANGED notAuditVars
    \/ AuditBeginsRaises /\ UNCHANGED notAuditVars
    \/ AuditClientSnapshot /\ UNCHANGED notAuditVars
    \/ AuditSnapshotRaises /\ UNCHANGED notAuditVars
    \/ AuditUpdateClientProduct /\ UNCHANGED notAuditVars
    \/ AuditUpdateRaises /\ UNCHANGED notAuditVars
    \/ AuditCompSnapshot /\ UNCHANGED notAuditVars
    \/ AuditUpdateCompetitor /\ UNCHANGED notAuditVars
    \/ AuditReturns /\ UNCHANGED notAuditVars

SpecAudit == InitAudit /\ [][NextAudit]_vars

----------------------------------------------------------------------------
(* Properties of the run coordinator (checked under Spec)                  *)

\* worker.py:86,120: the get_price calls of one run, in the order of the loops
RECURSIVE PlanFrom(_)
PlanFrom(prod) ==
    IF prod > NumProducts THEN << >>
    ELSE << <<"product", <<prod, 0>>>> >>
         \o [i \in 1..CompCount(prod) |-> <<"comp", <<prod, i>>>>]
         \o PlanFrom(prod + 1)
Plan == PlanFrom(1)

IsPrefix(s, t) == Len(s) <= Len(t) /\ \A i \in 1..Len(s) : s[i] = t[i]

\* the run is about to call get_price for the entity after the visited ones,
\* or has ended normally when there is none
AtNextOfPlan ==
    IF Len(visited) < Len(Plan)
    THEN LET e == Plan[Len(visited) + 1] IN
         /\ pc = (IF e[1] = "product" THEN "client_get_price" ELSE "comp_get_price")
         /\ <<p, k>> = e[2]
    ELSE pc = "done"

\* a get_price call for a competitor / a client returns None in this step
CompPriceNone ==
    pc = "comp_get_price" /\ pc' # "crashed" /\ IsNone(current_comp_price')
ClientPriceNone ==
    pc = "client_get_price" /\ pc' # "crashed" /\ IsNone(client_price')

\* the update_competitor call of the iteration of last_comp returned
WriteReturned == wrote \in {"last_price", "last_checked"}

\* C1: when the scraper returns None for a competitor, no alert is dispatched
\* and update_competitor is not called, so the store is unchanged; and an alert
\* is never dispatched for a price equal to the stored price that such a None
\* scrape left in place.
C1_UnavailableLeftAlone ==
    /\ [][CompPriceNone =>
            /\ db_last_price' = db_last_price
            /\ db_last_checked' = db_last_checked
            /\ alert_calls' = 0
            /\ wrote' = "none"
            /\ pc' \in {"comp_get_price", "client_get_price", "done"}]_vars
    /\ [](pc = "alert_fn" /\ kept[comp] # << >>
            => /\ kept[comp][1] = db_last_price[comp]
               /\ current_comp_price # kept[comp][1])
    /\ [](\A c \in Comps : kept[c] # << >> => kept[c][1] = db_last_price[c])

\* C1 witness: in a later run the competitor whose scrape had returned None is
\* scraped at its stored price, and the run takes the no-change branch.
C1_Witness ==
    /\ run = 2
    /\ pc = "update_checked"
    /\ kept[comp] # << >>
    /\ kept[comp][1] = current_comp_price
    /\ db_last_price[comp] = current_comp_price
    /\ alert_calls = 0

\* the alert part of C2: exactly one alert_fn call if the stored price is None
\* or differs from the scraped one, none if they are equal; the call carries
\* the stored price, the scraped price and the client price of this run.
C2_AlertOnce ==
    /\ pc \in {"alert_fn", "update_competitor", "update_checked"}
         => products[comp] = db_last_price[comp]
    /\ wrote # "none" =>
         LET c == last_comp
             changed == IsNone(products[c]) \/ products[c] # current_comp_price
         IN /\ ~IsNone(current_comp_price)
            /\ alert_calls = (IF changed THEN 1 ELSE 0)
            /\ changed => alert_sent = [comp |-> c, old_p |-> products[c],
                                        new_p |-> current_comp_price,
                                        client_p |-> client_price]
            /\ ~changed => alert_sent = NoAlert

\* the store holds the scraped price of last_comp, stamped with the time read
\* in this iteration, which is later than every other timestamp of the store
StoreHoldsScraped ==
    /\ db_last_price[last_comp] = current_comp_price
    /\ db_last_checked[last_comp] = now
    /\ now > 0
    /\ \A d \in Comps \ {last_comp} : db_last_checked[d] < now

C3_WriteAfterAlert ==
    /\ [][/\ db_last_price' # db_last_price
             => /\ alert_calls = 1 /\ alert_calls' = 1
                /\ alert_sent.comp = comp
                /\ db_last_price' = [db_last_price EXCEPT ![comp] = alert_sent.new_p]
          /\ alert_calls' # alert_calls /\ alert_calls' > 0
             => /\ db_last_price' = db_last_price
                /\ db_last_checked' = db_last_checked
                /\ pc' = "update_competitor"
                /\ <<p', k'>> = <<p, k>>]_vars
    /\ [](alert_raised /\ wrote = "none" => pc = "update_competitor")
    /\ [](alert_raised /\ WriteReturned
            => /\ wrote = "last_price"
               /\ db_last_price[last_comp] = current_comp_price)

\* C3 witness: the alert raised and the changed price was written all the same.
C3_Witness ==
    /\ alert_raised
    /\ wrote = "last_price"
    /\ products[last_comp] # current_comp_price
    /\ db_last_price[last_comp] = current_comp_price

\* C4: an alert_fn exception never ends the run: the run goes on to the write
\* of that competitor and then to the next entity, visits the entities in the
\* order of the plan without leaving one out, and ends normally only when all
\* have been visited.
C4_AlertFailureIsolated ==
    /\ pc = "crashed" => crash_cause \in {"list_client_products", "get_price",
                                          "update_client_product", "update_competitor"}
    /\ alert_raised /\ wrote = "none" => pc = "update_competitor"
    /\ alert_raised /\ WriteReturned => AtNextOfPlan
    /\ IsPrefix(visited, Plan)
    /\ pc = "done" => visited = Plan

\* C4 witness: the alert for the first competitor raised, and the run is about
\* to scrape its sibling.
C4_Witness ==
    /\ alert_raised
    /\ wrote = "last_price"
    /\ last_comp = <<1, 1>>
    /\ pc = "comp_get_price"
    /\ comp = <<1, 2>>

\* C5 as claimed: a store write that fails does not end the run.
C5_StoreFailureIsolated ==
    pc = "crashed" => crash_cause \notin {"update_client_product", "update_competitor"}

\* C6: when get_price returns None for an entity, the run goes on to the next
\* entity of the plan (the first competitor of a client without a price, the
\* sibling competitor, the next client); it ends normally only when every
\* entity has been visited.
C6_UnavailableSkipped ==
    /\ [][(CompPriceNone \/ ClientPriceNone)
            => /\ Len(visited') = Len(visited) + 1
               /\ AtNextOfPlan'
               /\ crash_cause' = "none"]_vars
    /\ [](IsPrefix(visited, Plan))
    /\ [](pc = "done" => visited = Plan)

\* C6 witness: the client's price was unavailable, so was its first
\* competitor's, and the second competitor is compared (an alert is due).
C6_Witness ==
    /\ run = 1
    /\ IsNone(client_price)
    /\ pc = "alert_fn"
    /\ comp = <<1, 2>>
    /\ kept[<<1, 1>>] # << >>
    /\ visited = << <<"product", <<1, 0>>>>, <<"comp", <<1, 1>>>>, <<"comp", <<1, 2>>>> >>

----------------------------------------------------------------------------
(* Properties of the fetch cascade (checked under SpecCascade)             *)

\* the requests fetch_shopify_js has issued
FssRequests == SelectSeq(requests, LAMBDA r : r.by = "fetch_shopify_js")

\* main.py:255-300: every host variant with every product-API path and every
\* page candidate, in the order of the loops
RECURSIVE AttemptsFrom(_, _, _)
AttemptsFrom(v, h, host_i) ==
    IF host_i > Len(_vendor_candidates(v)) THEN << >>
    ELSE [i \in 1..Len(Candidates(h)) |->
             [host |-> _vendor_candidates(v)[host_i],
              path |-> Candidates(h)[i].path, jina |-> Candidates(h)[i].jina]]
         \o AttemptsFrom(v, h, host_i + 1)

\* C6, the part of get_price: when every request of a get_price call fails
\* (a timeout, a transport error, a status other than 200, no usable record),
\* the call returns None and does not raise. The part of check_all_prices is
\* C6_UnavailableSkipped.
GetPriceFailsQuietly ==
    /\ g_call = "get_price"
    /\ g_pc \in {"returned", "raised"}
    /\ \A i \in 1..Len(requests) : requests[i].outcome = "failed"
    => g_pc = "returned" /\ IsNone(ret)

\* every request of the eleven that get_price can issue was made and failed
GetPriceFailsQuietly_Witness ==
    /\ g_call = "get_price"
    /\ g_pc = "returned"
    /\ Len(requests) = 11
    /\ \A i \in 1..Len(requests) : requests[i].outcome = "failed"

\* a product-API request of the call returned a price above zero
ApiGavePositivePrice ==
    /\ result # << >>
    /\ IsSuccess(result[1])
    /\ result[1].source = "shopify_js"
    /\ Val(result[1].current_price) > 0

\* C7 as claimed: if a product-API request returns a valid positive price, no
\* proxy request is issued at any point of the call, and no request at all
\* after the successful one.
C7_ShortCircuit ==
    ApiGavePositivePrice =>
        /\ requests[Len(requests)].outcome = "success"
        /\ \A i \in 1..Len(requests) : ~requests[i].jina

\* C8 as claimed: a price of zero or below does not end the cascade with a
\* success, and get_price never returns a price that is zero or negative.
C8_NoZeroOrNegativePrice ==
    /\ result # << >> /\ IsSuccess(result[1]) => Val(result[1].current_price) > 0
    /\ g_call = "get_price" /\ g_pc = "returned" /\ ~IsNone(ret) => Val(ret) > 0

\* C9 as claimed: a call to get_price or fetch_shopify_js never raises.
C9_NeverRaises == g_pc # "raised"

\* the result is a success: status and price, no error
SuccessShape(r) ==
    /\ {"status", "current_price"} \subseteq DOMAIN r
    /\ r.status = "success"
    /\ ~IsNone(r.current_price)
    /\ "error" \notin DOMAIN r

\* the result is a failure: an error, no price and no status
FailureShape(r) ==
    /\ "error" \in DOMAIN r
    /\ r.error # << >>
    /\ "current_price" \notin DOMAIN r
    /\ "status" \notin DOMAIN r

\* C10: a result of fetch_shopify_js is exactly one of a success and a failure;
\* a failure is returned only when every host variant was tried with every
\* product-API path and every page candidate and each attempt failed, and its
\* error is that of the last attempt ("No vendor candidates" when the vendor
\* has no host variant, so that there was no attempt).
C10_FailureAfterAllAttempts ==
    result # << >> =>
        LET r == result[1] IN
        /\ SuccessShape(r) # FailureShape(r)
        /\ FailureShape(r) =>
             /\ Len(FssRequests) = Len(AttemptsFrom(vendor, handle, 1))
             /\ \A i \in 1..Len(FssRequests) :
                  /\ FssRequests[i].host = AttemptsFrom(vendor, handle, 1)[i].host
                  /\ FssRequests[i].path = AttemptsFrom(vendor, handle, 1)[i].path
                  /\ FssRequests[i].jina = AttemptsFrom(vendor, handle, 1)[i].jina
                  /\ FssRequests[i].outcome = "failed"
             /\ r.error = IF FssRequests = << >> THEN <<"No vendor candidates">>
                          ELSE LET last == FssRequests[Len(FssRequests)]
                               IN << last.host, last.path, last.jina, attempt_error >>

\* C10 witness: both host variants, each with two product-API paths and three
\* pages, were tried, and the failure names the root page of the second host.
C10_Witness ==
    /\ g_call = "fetch_shopify_js"
    /\ g_pc = "returned"
    /\ FailureShape(result[1])
    /\ Len(requests) = 10
    /\ result[1].error[1] = << "www.", "shop.com" >>
    /\ result[1].error[2] = << "/" >>

----------------------------------------------------------------------------
(* Properties of the text extractors (checked under SpecExtract)           *)

\* C11 as claimed: no extractor raises on any text, and get_product_snapshot
\* does not raise whatever the page holds.
C11_ExtractionNeverRaises == ~ex_out.raises

----------------------------------------------------------------------------
(* Properties of _request (checked under SpecRequest)                      *)

\* the failures the retry policy names: the six statuses, connect and read
\* timeouts
NamedTransient(o) ==
    \/ o.kind = "response" /\ o.status \in {408, 429, 500, 502, 503, 504}
    \/ o.kind = "exception" /\ o.exc \in {"ReadTimeout", "ConnectTimeout"}

\* the same with the protocol error of the remote side
TransientOrProtocol(o) ==
    NamedTransient(o) \/ (o.kind = "exception" /\ o.exc = "RemoteProtocolError")

\* an attempt that got a 2xx response with an empty or a JSON body
AttemptSucceeded(o) ==
    o.kind = "response" /\ o.status \in 200..299 /\ o.body \in {"json", "empty"}

\* the retry policy, for the failures R that are retried: at most 5 attempts;
\* an attempt is followed by another exactly when it failed with R and was not
\* the fifth; the waits are 1, 2, 4, 8, 16 seconds, one after each failure
\* with R; the call returns only at an attempt that succeeded, which is then
\* the last; after 5 failed attempts the call has raised
RetryPolicy(R(_)) ==
    LET n == Len(rq_log)
        over == rq_pc \in {"returned", "raised"}
        retried == { i \in 1..n : R(rq_log[i]) }
    IN /\ n <= 5
       /\ attempt = n
       /\ \A i \in 1..(n - 1) : R(rq_log[i])
       /\ over /\ n < 5 => ~R(rq_log[n])
       /\ Len(slept) = Cardinality(retried)
       /\ \A i \in 1..Len(slept) : slept[i] = << 1, 2, 4, 8, 16 >>[i]
       /\ rq_pc = "returned" => n >= 1 /\ AttemptSucceeded(rq_log[n])
       /\ \A i \in 1..(n - 1) : ~AttemptSucceeded(rq_log[i])
       /\ n = 5 /\ ~AttemptSucceeded(rq_log[5]) => rq_pc = "raised"

\* C12 as claimed: the retry policy with retries exactly on the six statuses
\* and on connect and read timeouts.
C12_Claimed == RetryPolicy(NamedTransient)

\* C12: one store request follows the retry policy (at most 5 attempts, waits
\* of 1, 2, 4, 8, 16 seconds, return at the first success, raise after the
\* fifth failure), retrying exactly on the six statuses, on connect and read
\* timeouts and on a protocol error of the remote side.
C12_RetryPolicy == RetryPolicy(TransientOrProtocol)

\* C12 witness: five attempts failed, the first with a protocol error, another
\* with a status and another with a timeout; the call waited five times and
\* raised.
C12_Witness ==
    /\ rq_pc = "raised"
    /\ Len(rq_log) = 5
    /\ rq_log[1] = Exc("RemoteProtocolError")
    /\ rq_log[3] = Response(503, "empty")
    /\ rq_log[5] = Exc("ReadTimeout")
    /\ slept = << 1, 2, 4, 8, 16 >>

\* a failure that is final: an error status that is not one of the six, or a
\* transport error that is not one of the exceptions named
FinalFailure(o, retried_exceptions) ==
    \/ o.kind = "response" /\ o.status >= 400
                           /\ o.status \notin {408, 429, 500, 502, 503, 504}
    \/ o.kind = "exception" /\ o.exc \notin retried_exceptions

\* a final failure at attempt i leaves _request at once: it is the last
\* attempt, the call has raised that error, and no wait followed the attempt
PropagatesAtOnce(i) ==
    /\ i = Len(rq_log)
    /\ rq_pc = "raised"
    /\ rq_result.value = IF rq_log[i].kind = "exception" THEN rq_log[i].exc
                         ELSE "HTTPStatusError"
    /\ Len(slept) = i - 1

\* C13 as claimed: every error status outside the six and every transport
\* error other than a connect or read timeout propagates at once.
C13_Claimed ==
    \A i \in 1..Len(rq_log) :
        FinalFailure(rq_log[i], {"ReadTimeout", "ConnectTimeout"})
            => PropagatesAtOnce(i)

\* C13: an error status outside the six, and a transport error other than a
\* connect timeout, a read timeout or a protocol error of the remote side,
\* propagates on the attempt where it occurs, with no later attempt and no
\* wait, however many retried failures came before.
C13_FinalFailurePropagates ==
    \A i \in 1..Len(rq_log) :
        FinalFailure(rq_log[i], {"ReadTimeout", "ConnectTimeout", "RemoteProtocolError"})
            => PropagatesAtOnce(i)

\* C13 witness: a 404 at the third attempt, after a retried status and a
\* retried timeout, has left the call with two waits taken.
C13_Witness ==
    /\ rq_log = << Response(503, "empty"), Exc("ReadTimeout"), Response(404, "json") >>
    /\ rq_pc = "raised"
    /\ rq_result.value = "HTTPStatusError"
    /\ slept = << 1, 2 >>

----------------------------------------------------------------------------
(* Properties of the onboarding part (checked under SpecOnboard)           *)

\* the product whose onboarding step was just made
JustDecided == ob_pc = "competitors" /\ OnboardingOn(initial_alert_fn)

\* the route of the product, and the route the loaded state has for it
RouteOf(prod) == Strip(prod.slack_channel_id)
KnownRoute(prod) == DictGet(loaded, StrOf(prod.id))

\* the product is absent from the state, or present under another route
NewOrRouteChanged(prod) ==
    IsNone(KnownRoute(prod)) \/ Val(KnownRoute(prod)) # RouteOf(prod)

\* the entry of the product is the current route if the notification was
\* sent, and else what it was; after a notification that raised the state
\* file still has, at the end of the run, what it had for the product
EntryFollowsNotification(prod) ==
    /\ notified[prod.id] = "sent"
         => DictGet(initial_alert_state, StrOf(prod.id)) = Some(RouteOf(prod))
    /\ notified[prod.id] # "sent"
         => DictGet(initial_alert_state, StrOf(prod.id)) = KnownRoute(prod)

RaisedIsKeptForNextRun ==
    \A i \in 1..Len(listed) :
        ob_pc = "done" /\ notified[listed[i].id] = "raised"
            => DictGet(_load_initial_alert_state(state_file), StrOf(listed[i].id))
                 = KnownRoute(listed[i])

\* C14 as claimed: the notification is attempted exactly when the entity is
\* absent from the state or present under another route.
C14_Claimed ==
    JustDecided =>
        /\ notified[product.id] # "none" <=> NewOrRouteChanged(product)
        /\ EntryFollowsNotification(product)

\* C14: with onboarding enabled, the notification is attempted for a product
\* exactly when the product has a route and is absent from the state or
\* present under another route; its entry becomes the current route only if
\* the call returned, and is unchanged, in the state and in the file, if it
\* raised.
C14_NotifiedWhenNewOrChanged ==
    /\ JustDecided =>
         /\ notified[product.id] # "none"
              <=> (RouteOf(product) # << >> /\ NewOrRouteChanged(product))
         /\ EntryFollowsNotification(product)
    /\ RaisedIsKeptForNextRun

\* C14 witness: the first product, known under C2 and now on C1, was notified
\* and its entry is C1; the second, known under C1 still, was not.
C14_Witness ==
    /\ JustDecided
    /\ ob_i = 2
    /\ listed[1].slack_channel_id = << "C1", Blank >>
    /\ KnownRoute(listed[1]) = Some(<< "C2" >>)
    /\ notified[1] = "sent"
    /\ DictGet(initial_alert_state, StrOf(1)) = Some(<< "C1" >>)
    /\ KnownRoute(listed[2]) = Some(<< "C1" >>)
    /\ listed[2].slack_channel_id = << "C1" >>
    /\ notified[2] = "none"

\* the keys of the products of the run's list
ListedKeys == { StrOf(listed[i].id) : i \in 1..Len(listed) }

\* the run with onboarding has ended normally
CompletedWithOnboarding == ob_pc = "done" /\ OnboardingOn(initial_alert_fn)

\* C15: after a run with onboarding that completes, every key of the state is
\* the id of a listed product and no entry of a listed product was dropped;
\* when the loaded state has a key of a product that is not listed, the end
\* of the run calls _save_initial_alert_state, and the file it puts in
\* place has the keys of listed products only.
C15_StaleKeysPruned ==
    /\ [](CompletedWithOnboarding =>
            /\ Keys(initial_alert_state) \subseteq ListedKeys
            /\ Keys(loaded) \cap ListedKeys \subseteq Keys(initial_alert_state)
            /\ replaces = 1 =>
                 Keys(_load_initial_alert_state(state_file)) \subseteq ListedKeys)
    /\ [][ob_pc = "finish" /\ OnboardingOn(initial_alert_fn)
          /\ ~(Keys(loaded) \subseteq ListedKeys)
            => ob_pc' = "save"]_vars

\* C15 witness: the file had an entry for product 1 and one for product 3;
\* only product 1 is listed, nothing was notified, and the file now in place
\* has the entry of product 1 alone.
C15_Witness ==
    /\ CompletedWithOnboarding
    /\ Keys(loaded) = { StrOf(1), StrOf(3) }
    /\ ListedKeys = { StrOf(1) }
    /\ notified = NoneNotified
    /\ replaces = 1
    /\ state_file = FileRows({ << StrOf(1), JStr(<< "C1" >>) >> })

\* C16: in a run with onboarding the state file is read once, when the run
\* begins, and a new file is put in place at most once, in the last step of
\* the run, and only after a notification was sent or a stale key was
\* dropped; at every point, also when the process is stopped between two
\* steps of the save, the state file holds what it held when the run began or
\* the complete new state.
C16_WrittenOnceAtomically ==
    /\ [](/\ reads <= 1
          /\ OnboardingOn(initial_alert_fn) /\ ob_pc \notin {"idle", "crashed"}
               => reads = 1
          /\ replaces <= 1
          /\ replaces = 1 =>
               \/ \E id \in EntityIds : notified[id] = "sent"
               \/ ~(Keys(loaded) \subseteq ListedKeys)
          /\ \/ state_file = file_at_start /\ replaces = 0
             \/ state_file = Dump(initial_alert_state) /\ replaces = 1)
    /\ [][state_file' # state_file
            => ob_pc = "save: replace" /\ ob_pc' = "done" /\ state_file' = temp_file]_vars

\* C16 witness: the process was stopped after the temp file was written and
\* before the rename; the state file is the one the run found, the new state
\* is in the temp file only.
C16_Witness ==
    /\ ob_pc = "crashed"
    /\ OnboardingOn(initial_alert_fn)
    /\ temp_file = Dump(initial_alert_state)
    /\ state_file = file_at_start
    /\ state_file # temp_file
    /\ notified[1] = "sent"
    /\ replaces = 0

\* the contents from which nothing can be loaded
Damaged ==
    { FileMissing, FileGarbage, FileNotObject, FileNoKey, FileRowsNotObject }

C20_ScheduledRunsOnboard ==
    caller = "run_once" /\ ob_pc = "done" =>
        \A i \in 1..Len(listed) :
            /\ RouteOf(listed[i]) # << >>
            /\ StrOf(listed[i].id) \notin Keys(_load_initial_alert_state(file_at_start))
            => /\ notified[listed[i].id] # "none"
               /\ notified[listed[i].id] = "sent" =>
                    DictGet(_load_initial_alert_state(state_file), StrOf(listed[i].id))
                      = Some(RouteOf(listed[i]))

----------------------------------------------------------------------------
(* Properties of run_forever (checked under SpecLoop)                      *)

----------------------------------------------------------------------------
(* Termination of one run (the cascade under SpecCascade, with the lemmas  *)
(* of the coordinator under Spec and of the store request under            *)
(* SpecRequest)                                                            *)

\* the requests get_price or fetch_shopify_js can still issue from here: the
\* rest of the candidates of this host, every candidate of the hosts after
\* it, and for get_price the request for the URL itself
RequestsLeft ==
    IF g_pc = "fetch_shopify_js"
    THEN (Len(Candidates(handle)) - ci + 1)
         + (Len(_vendor_candidates(vendor)) - hi) * Len(Candidates(handle))
         + (IF g_call = "get_price" THEN 1 ELSE 0)
    ELSE IF g_pc = "jina" THEN 1
    ELSE 0

\* C19: for one URL the cascade issues a bounded number of requests: at most
\* two host variants, each with at most two API paths and three page
\* candidates, plus one final proxy request, 2 * (2 + 3) + 1 in all.  Every
\* step of a call issues one request and leaves strictly fewer to issue, so
\* whatever the targets answer the call ends after at most that many requests.
C19_CascadeTerminates ==
    /\ [][(g_pc \in {"fetch_shopify_js", "jina"})
            => /\ Len(requests') = Len(requests) + 1
               /\ RequestsLeft > RequestsLeft']_vars
    /\ [][(g_pc \in {"returned", "raised"}) => requests' = requests]_vars
    /\ [](RequestsLeft >= 0)
    /\ [](Len(requests) + RequestsLeft <= 2 * (2 + 3) + 1)
    /\ [](/\ Len(_vendor_candidates(vendor)) <= 2
          /\ Len(_path_candidates(handle)) <= 2
          /\ Len(_page_candidates(handle)) <= 3)
    /\ [](g_pc \in {"returned", "raised"} => RequestsLeft = 0)

\* C19 witness: every request of the cascade failed; get_price returned None
\* after the second host's last page and the final proxy request, 11 in all.
C19_Witness ==
    /\ g_call = "get_price"
    /\ g_pc = "returned"
    /\ IsNone(ret)
    /\ Len(requests) = 2 * (2 + 3) + 1
    /\ \A i \in 1..Len(requests) : requests[i].outcome = "failed"
    /\ requests[Len(requests)].by = "get_price"

\* the steps a run of check_all_prices can still take: for every get_price
\* call to come, the call and at most two steps after it (the alert and the
\* store write)
StepsLeft ==
    IF pc \in {"client_get_price", "comp_get_price"}
    THEN 3 * (Len(Plan) - Len(visited))
    ELSE IF pc = "alert_fn" THEN 3 * (Len(Plan) - Len(visited)) + 2
    ELSE IF pc \in {"update_client_product", "update_competitor", "update_checked"}
    THEN 3 * (Len(Plan) - Len(visited)) + 1
    ELSE 0

\* lemma of C19 (under Spec): every step of a run leaves strictly fewer steps
\* to take; the entities are visited in the order of the plan, each once.
RunStepsDecrease ==
    /\ [][(pc \notin {"idle", "done", "crashed"}) => StepsLeft > StepsLeft']_vars
    /\ [](StepsLeft >= 0 /\ StepsLeft <= 3 * Len(Plan))
    /\ [](IsPrefix(visited, Plan))
    /\ [](\A i, j \in 1..Len(Plan) : Plan[i] = Plan[j] => i = j)

\* lemma of C19 (under SpecRequest): a store request makes at most 5 attempts,
\* and every step of it is one more attempt
StoreAttemptsBounded ==
    /\ [](attempt <= MaxAttempts /\ Len(rq_log) = attempt)
    /\ [][rq_pc = "running" => attempt' = attempt + 1]_vars
    /\ [][(rq_pc \in {"returned", "raised"}) => attempt' = attempt]_vars

----------------------------------------------------------------------------
(* The origin of a returned price (checked under SpecCascade)              *)

\* the paths fetch_shopify_js builds from the handle h
HandlePaths(h) ==
    { <<"/products/", h, ".js">>, <<"/", h, ".js">>, <<"/", h>>, <<"/products/", h>> }

\* the request whose response gave the price get_price returned
PriceRequest == requests[Len(requests)]

\* C29: every price get_price returns was extracted from the response to a
\* request for the product: a path built from the URL's handle, or the URL
\* itself; never from another page of the host such as its root page.
C29_PriceFromProductRequest ==
    (g_call = "get_price" /\ g_pc = "returned" /\ ~IsNone(ret))
        => /\ requests # << >>
           /\ PriceRequest.outcome = "success"
           /\ \/ PriceRequest.by = "get_price" /\ PriceRequest.path = full_url.path
              \/ /\ PriceRequest.by = "fetch_shopify_js"
                 /\ PriceRequest.path \in HandlePaths(HandleOf(full_url))

----------------------------------------------------------------------------
(* Properties of the text extractors (checked under SpecExtract)           *)

\* the text of the page the extractor was applied to
PageText == PageContent(ex_data).s

\* the phrase of a category occurs in the text, in any casing
HasPhrase(text, phrases) == \E i \in 1..Len(text) : LowerTok(text[i].tok) \in phrases

\* "only N left" occurs in the text
HasOnlyLeft(text) ==
    \E i \in 1..Len(text) :
        /\ i + 2 <= Len(text)
        /\ LowerTok(text[i].tok) = "only"
        /\ text[i + 1].tok \in {"num", "thousands"}
        /\ LowerTok(text[i + 2].tok) = "left"

\* the category of highest priority whose phrase occurs, None when none does
StockCategory(text) ==
    IF HasPhrase(text, {"out of stock", "sold out", "unavailable"})
    THEN Some("Out of Stock")
    ELSE IF HasPhrase(text, {"backorder", "backordered", "pre-order", "preorder"})
    THEN Some("Backordered")
    ELSE IF HasPhrase(text, {"low stock", "limited stock"}) \/ HasOnlyLeft(text)
    THEN Some("Low Stock")
    ELSE IF HasPhrase(text, {"in stock", "available now", "ready to ship"})
    THEN Some("In Stock")
    ELSE None

\* C22: stock classification returns the highest-priority category whose
\* phrase occurs in the text, in the order OutOfStock > Backordered >
\* LowStock > InStock, whatever the casing, and no category when no phrase
\* occurs; "Sold Out", "out of stock" and "Unavailable" give one category.
C22_StockPriority ==
    /\ ex_fn = "_extract_stock_status" => ex_out = Returns(StockCategory(PageText))
    /\ _extract_stock_status(<< T("Sold Out") >>) = Returns(Some("Out of Stock"))
    /\ _extract_stock_status(<< T("out of stock") >>) = Returns(Some("Out of Stock"))
    /\ _extract_stock_status(<< T("Unavailable") >>) = Returns(Some("Out of Stock"))

\* C22 witness: a text with a low-stock phrase and an in-stock phrase after
\* it in capitals was classified as Low Stock.
C22_Witness ==
    /\ ex_fn = "_extract_stock_status"
    /\ PageText = << T("only"), Num(3), T("left"), T("Ready to Ship") >>
    /\ ex_out = Returns(Some("Low Stock"))

\* the phrasings in their order of priority, "N-day shipping" written with
\* or without its hyphen
Phrasings ==
    [ShippingPatterns EXCEPT
        ![4].pat = << El({"free"}, 1, TRUE), El({"num"}, 2, FALSE),
                      El({"dash"}, 0, TRUE), El({"day"}, 0, FALSE),
                      El({"shipping"}, 0, FALSE) >>]

\* the first phrasing that occurs in the text (0: none)
RECURSIVE FirstShippingPattern(_, _)
FirstShippingPattern(text, j) ==
    IF j > Len(Phrasings) THEN 0
    ELSE IF Search(Phrasings[j].pat, Phrasings[j].n, Lower(text)).ok THEN j
    ELSE FirstShippingPattern(text, j + 1)

\* the groups of the phrasing j, as it occurs in the text, that hold a number
NumberGroups(text, j) ==
    LET groups == Search(Phrasings[j].pat, Phrasings[j].n, Lower(text)).groups
    IN { g \in 1..Len(groups) : ~IsNone(groups[g]) /\ Val(groups[g]).tok = "num" }

\* the number N of the phrasing (the first when first is TRUE), or M
ShippingNumber(text, j, first) ==
    LET groups == Search(Phrasings[j].pat, Phrasings[j].n, Lower(text)).groups
        at == CHOOSE g \in NumberGroups(text, j) :
                \A h \in NumberGroups(text, j) : IF first THEN g <= h ELSE g >= h
    IN Val(groups[at]).amount

\* the days the phrasing stands for, in halves: the mean of a range, N for a
\* number of days, 7 * N for a number of weeks
HalvesOf(text, j) ==
    IF Phrasings[j].kind = "range"
    THEN ShippingNumber(text, j, TRUE) + ShippingNumber(text, j, FALSE)
    ELSE IF Phrasings[j].kind = "ships_weeks" THEN 14 * ShippingNumber(text, j, TRUE)
    ELSE 2 * ShippingNumber(text, j, TRUE)

ShippingHalves(text) == HalvesOf(text, FirstShippingPattern(text, 1))

\* C23: shipping-estimate extraction gives (label, days) for each covered
\* phrasing, the first matching pattern deciding: the mean of N and M for a
\* range, N for a number of days, 7 * N for a number of weeks; (None, None)
\* for a text that matches no pattern; "N-day shipping" gives N.
C23_ShippingNormalized ==
    ex_fn = "_extract_shipping_estimate" =>
        /\ ~ex_out.raises
        /\ IF PageText = << >> \/ FirstShippingPattern(PageText, 1) = 0
           THEN IsNone(ex_out.value)
           ELSE /\ ~IsNone(ex_out.value)
                /\ Val(ex_out.value).halves = ShippingHalves(PageText)

----------------------------------------------------------------------------
(* Properties of get_product_snapshot (checked under SpecExtract)          *)

\* get_product_snapshot has returned a snapshot
SnapshotReturned == ex_fn = "get_product_snapshot(url)" /\ ~ex_out.raises

\* what the extractor finds in the page that was fetched, None without a page
FoundInPage(extractor(_)) ==
    IF Truthy(ex_data) THEN extractor(PageText).value ELSE None

\* the snapshot carries a stock status and a discount that are not blank: the
\* extracted value when there is one, the sentinel of the field when not
PlaceholderPolicy(snap) ==
    /\ {"stock_status", "discount"} \subseteq snap.keys
    /\ ~IsNone(snap.stock_status) /\ Val(snap.stock_status) \notin BlankStrings
    /\ ~IsNone(snap.discount) /\ Val(snap.discount).form \notin BlankStrings
    /\ IF IsNone(FoundInPage(_extract_stock_status))
       THEN snap.stock_status = Some("Manual Audit Required")
       ELSE snap.stock_status = FoundInPage(_extract_stock_status)
    /\ IF IsNone(FoundInPage(_extract_discount_code))
       THEN Val(snap.discount).form = "Data Pending"
       ELSE snap.discount = FoundInPage(_extract_discount_code)

\* C24 as stated: every snapshot get_product_snapshot returns, for any URL and
\* any fetch outcome, carries a non-blank stock_status and discount.
C24_Claimed == SnapshotReturned => PlaceholderPolicy(Val(ex_out.value))

\* C24: every snapshot get_product_snapshot returns for a URL that is not
\* blank, whatever the fetch outcome, carries a non-blank stock_status and
\* discount: "Manual Audit Required" for a missing stock status, "Data
\* Pending" for a missing discount, the extracted value otherwise.
C24_PlaceholdersFilled ==
    (SnapshotReturned /\ ex_url # NoUrl) => PlaceholderPolicy(Val(ex_out.value))

\* C24 witness: the page says "Sold Out" and names no discount; the snapshot
\* keeps the stock status and carries the sentinel for the discount.
C24_Witness ==
    /\ SnapshotReturned
    /\ ex_url # NoUrl
    /\ Truthy(ex_data) /\ PageText = << T("Sold Out") >>
    /\ Val(ex_out.value).stock_status = Some("Out of Stock")
    /\ Val(Val(ex_out.value).discount).form = "Data Pending"

----------------------------------------------------------------------------
(* The source of a page's price (checked under SpecExtract)                *)

\* C21: the price recorded for a page that has a structured price (structured
\* data block, then meta tags, then micro-data attribute) is the structured
\* one, whatever dollar figures its text holds and wherever they stand; the
\* free-text scan decides only when no structured source yields a price.
C21_StructuredPreferred ==
    (ex_fn = "_extract_price_from_jina" /\ ~ex_out.raises) =>
        ex_out.value = IF ~IsNone(_extract_price_from_html(ex_html))
                       THEN _extract_price_from_html(ex_html)
                       ELSE FirstUsd(PageText)

----------------------------------------------------------------------------
\* C28: a product that stays listed with the channel it had receives at most
\* one notification that initial_alert_fn delivered, over all the runs,
\* those that raise on the way and those whose save fails included
C28_AtMostOneOnboarding ==
    \A id \in EntityIds : Len(delivered[id]) <= 1

----------------------------------------------------------------------------
\* a handler of slack_handlers.py was called for the request
Handled ==
    \E i \in 1..Len(fr_calls) :
        fr_calls[i] \in { "handle_prices_command", "handle_product_selected" }

\* a read of the store or a fetch of the handler raised
CallRaised ==
    \E i \in 1..Len(fr_calls) :
        fr_calls[i] \in { "list_client_products raises", "get_client_product raises",
                          "get_price raises" }

\* C25: a handler whose reads return answers with a message, never with an
\* internal error: "No products configured yet." or the select for the
\* prices command, "Product not found." or the competitor view for a selection
C25_HandlersAnswerWithMessage ==
    (fr_pc = "done" /\ Handled /\ ~CallRaised) =>
        /\ fr_resp.status = 200
        /\ ~IsNone(fr_message)
        /\ Val(fr_message).text \in
              { "No products configured yet.", "Which product do you want to audit?",
                "Product not found.", "No competitors configured.", "Competitors" }

\* C26: to answer a request the endpoints read the store and never call
\* the scraper
C26_NoLiveFetch ==
    \A i \in 1..Len(fr_calls) : fr_calls[i] \notin { "get_price", "get_price raises" }

\* the request does not prove that Slack sent it: the signature is missing
\* or is not the digest, or the timestamp is missing or too far from now
Unauthentic ==
    \/ fr_req.signature \in { "missing", "empty", "invalid", "non-ascii" }
    \/ fr_req.timestamp \in { "missing", "stale", "huge" }

\* no handler is called for a request that does not prove its origin
UnauthenticNotHandled ==
    (fr_req.secret = "set" /\ Unauthentic) => ~Handled

\* C30: with the secret set, a request that does not prove its origin and
\* is no URL verification runs no handler and is answered with 401
C30_UnauthenticGets401 ==
    (fr_pc = "done" /\ fr_req.secret = "set" /\ Unauthentic
        /\ fr_req.body.json # "url_verification") =>
        /\ ~Handled
        /\ fr_resp.status = 401

----------------------------------------------------------------------------
\* C27: in any interleaving of check_all_prices and collect_audit_data,
\* a step that changes the stored last_price of a competitor is the write of
\* check_all_prices (worker.py:149) after its alert_fn call for that price
C27_PriceWritesAreAlerted ==
    [][\A c \in Comps :
          (db_last_price'[c] # db_last_price[c]) =>
              /\ pc = "update_competitor"
              /\ comp = c
              /\ alert_calls = 1
              /\ alert_sent.new_p = db_last_price'[c]]_vars

====
